---------------------------- MODULE Spec2Model ----------------------------
(***************************************************************************)
(* The attribute-descriptor / object-graph runtime of capellambse, driven  *)
(* by the relation declarations of the metamodel (src/capellambse/         *)
(* metamodel).  The backing tree, the identity map and the last operation  *)
(* are the state; every binding operation (Containment, Association,       *)
(* Allocation, Backref, Single, fixed length, type resolution) is one      *)
(* action.  The declarations (tags, attributes, cardinalities, namespace   *)
(* versions) are taken from the metamodel sources; the binding runtime     *)
(* itself (capellambse.model) follows its specified contract.              *)
(***************************************************************************)
EXTENDS Integers, Sequences, FiniteSets, TLC

\* Node identities available to one model (no document ever holds more).
MaxNodes == 6
\* Nodes the state-machine document may hold.
SMNodes == 4
FnNodes == 4
CSNodes == 6
CardNodes == 6
NSNodes == 3
\* Wrappers one node may be given before resolution is no longer exercised.
MaxWrappers == 2
\* How many Nodes a document of views and exchanges may hold.
ViewNodes == 6
\* How many Nodes the document of a region read by old names may hold.
CompatNodes == 5
\* How many Nodes the document of physical functions may hold.
PFNodes == 5
\* How many Nodes a document of two architecture layers may hold.
RealNodes == 5
\* How many Nodes a document of components may hold.
CompNodes == 5
\* How many Nodes the document of a physical link may hold.
LinkNodes == 5
\* How many Nodes the document of ports may hold.
PortNodes == 5
\* How many Nodes the document of an architecture may hold.
ArchNodes == 6
\* How many references one Association attribute may be grown to.
MaxRefs == 2

Nodes == 1..MaxNodes
NoNode == 0
Root == 1
\* The marker a Collection holds in place of a member whose referent is gone.
Dangling == -1

VARIABLES
    tree,      \* the backing tree: qtype, tag, parent, kids, refs, next (the
               \* next fresh node) and cap (the nodes this document may hold)
    idmap,     \* Identity Map: entry (node -> serial of its wrapper, 0: none)
               \* and live (the wrappers <<node, serial>> constructed and
               \* not invalidated)
    version,   \* the model's declared schema version <<major, minor, patch>>
    op         \* the last binding operation and its outcome

vars == <<tree, idmap, version, op>>

-----------------------------------------------------------------------------
(* Namespaces and versions (metamodel/namespaces.py)                        *)

\* Lexicographic order on <<major, minor, patch>>.
VersionLE(a, b) ==
    \/ a[1] < b[1]
    \/ a[1] = b[1] /\ a[2] < b[2]
    \/ a[1] = b[1] /\ a[2] = b[2] /\ a[3] <= b[3]

V600 == <<6, 0, 0>>
V700 == <<7, 0, 0>>
V710 == <<7, 1, 0>>

NS_CAPELLACOMMON_from6 == [name |-> "CAPELLACOMMON", minver |-> V600]
NS_CAPELLACOMMON == [name |-> "CAPELLACOMMON", minver |-> V700]
NS_CAPELLACORE == [name |-> "CAPELLACORE", minver |-> V700]
NS_CS == [name |-> "CS", minver |-> V700]
NS_FA == [name |-> "FA", minver |-> V700]
NS_INFORMATION_DATATYPE == [name |-> "INFORMATION_DATATYPE", minver |-> V700]
NS_INFORMATION_DATAVALUE == [name |-> "INFORMATION_DATAVALUE", minver |-> V700]
NS_LA == [name |-> "LA", minver |-> V700]
NS_PA == [name |-> "PA", minver |-> V700]
NS_OA == [name |-> "OA", minver |-> V700]
NS_SA == [name |-> "SA", minver |-> V700]
NS_EPBS == [name |-> "EPBS", minver |-> V700]
NS_CAPELLAMODELLER == [name |-> "CAPELLAMODELLER", minver |-> V700]
NS_INFORMATION == [name |-> "INFORMATION", minver |-> V700]

Namespaces ==
    {NS_CAPELLACOMMON, NS_CAPELLACORE, NS_CS, NS_FA,
     NS_INFORMATION_DATATYPE, NS_INFORMATION_DATAVALUE, NS_LA, NS_PA, NS_OA,
     NS_SA, NS_EPBS, NS_CAPELLAMODELLER, NS_INFORMATION}

NoType == <<"", "">>

-----------------------------------------------------------------------------
(* Classes: qualified type -> direct superclasses, as declared              *)

T_AbstractFunction == <<"FA", "AbstractFunction">>
T_LogicalFunction == <<"LA", "LogicalFunction">>
T_PhysicalFunction == <<"PA", "PhysicalFunction">>
T_SystemComponent == <<"SA", "SystemComponent">>
T_SystemComponentPkg == <<"SA", "SystemComponentPkg">>
T_PhysicalComponentPkg == <<"PA", "PhysicalComponentPkg">>
T_Entity == <<"OA", "Entity">>
T_EntityPkg == <<"OA", "EntityPkg">>
T_ConfigurationItem == <<"EPBS", "ConfigurationItem">>
T_ConfigurationItemPkg == <<"EPBS", "ConfigurationItemPkg">>
T_TypedElement == <<"MODELLINGCORE", "TypedElement">>
T_DeployableElement == <<"CS", "DeployableElement">>
T_AbstractDeploymentLink == <<"CS", "AbstractDeploymentLink">>
T_PartDeploymentLink == <<"PA_DEPLOYMENT", "PartDeploymentLink">>
T_GeneralizableElement == <<"CAPELLACORE", "GeneralizableElement">>
T_DataType == <<"INFORMATION_DATATYPE", "DataType">>
T_Enumeration == <<"INFORMATION_DATATYPE", "Enumeration">>
T_EnumerationLiteral == <<"INFORMATION_DATAVALUE", "EnumerationLiteral">>
T_InformationsExchanger == <<"MODELLINGCORE", "InformationsExchanger">>
T_AbstractType == <<"MODELLINGCORE", "AbstractType">>
T_SystemEngineering == <<"CAPELLAMODELLER", "SystemEngineering">>
T_OperationalAnalysis == <<"OA", "OperationalAnalysis">>
T_SystemAnalysis == <<"SA", "SystemAnalysis">>
T_PhysicalArchitecture == <<"PA", "PhysicalArchitecture">>
T_EPBSArchitecture == <<"EPBS", "EPBSArchitecture">>
T_OperationalAnalysisRealization == <<"SA", "OperationalAnalysisRealization">>
T_SystemAnalysisRealization == <<"LA", "SystemAnalysisRealization">>
T_LogicalArchitectureRealization == <<"PA", "LogicalArchitectureRealization">>
T_PhysicalArchitectureRealization ==
    <<"EPBS", "PhysicalArchitectureRealization">>
T_PhysicalComponent == <<"PA", "PhysicalComponent">>
T_Region == <<"CAPELLACOMMON", "Region">>
T_AbstractState == <<"CAPELLACOMMON", "AbstractState">>
T_State == <<"CAPELLACOMMON", "State">>
T_Mode == <<"CAPELLACOMMON", "Mode">>
T_StateTransition == <<"CAPELLACOMMON", "StateTransition">>
T_AbstractStateRealization == <<"CAPELLACOMMON", "AbstractStateRealization">>
T_FunctionRealization == <<"FA", "FunctionRealization">>
T_Block == <<"CS", "Block">>
T_InterfaceAllocator == <<"CS", "InterfaceAllocator">>
T_Component == <<"CS", "Component">>
T_LogicalComponent == <<"LA", "LogicalComponent">>
T_InterfacePkg == <<"CS", "InterfacePkg">>
T_Interface == <<"CS", "Interface">>
T_InterfaceAllocation == <<"CS", "InterfaceAllocation">>
T_InterfaceUse == <<"CS", "InterfaceUse">>
T_InterfaceImplementation == <<"CS", "InterfaceImplementation">>
T_PhysicalLink == <<"CS", "PhysicalLink">>
T_AbstractPhysicalLinkEnd == <<"CS", "AbstractPhysicalLinkEnd">>
T_PhysicalLinkEnd == <<"CS", "PhysicalLinkEnd">>
T_BooleanType == <<"INFORMATION_DATATYPE", "BooleanType">>
T_LiteralBooleanValue == <<"INFORMATION_DATAVALUE", "LiteralBooleanValue">>
T_ModelElement == <<"MODELLINGCORE", "ModelElement">>
T_AbstractConstraint == <<"MODELLINGCORE", "AbstractConstraint">>
T_ValueSpecification == <<"MODELLINGCORE", "ValueSpecification">>
T_Constraint == <<"CAPELLACORE", "Constraint">>
T_Feature == <<"CAPELLACORE", "Feature">>
T_Classifier == <<"CAPELLACORE", "Classifier">>
T_ComponentPkg == <<"CS", "ComponentPkg">>
T_LogicalComponentPkg == <<"LA", "LogicalComponentPkg">>
T_Property == <<"INFORMATION", "Property">>
T_Port == <<"INFORMATION", "Port">>
T_PortRealization == <<"INFORMATION", "PortRealization">>
T_PortAllocation == <<"INFORMATION", "PortAllocation">>
T_Part == <<"CS", "Part">>
T_PhysicalPort == <<"CS", "PhysicalPort">>
T_ComponentPort == <<"FA", "ComponentPort">>
T_Service == <<"INFORMATION", "Service">>
T_Class == <<"INFORMATION", "Class">>
T_Union == <<"INFORMATION", "Union">>
T_DataPkg == <<"INFORMATION", "DataPkg">>
T_BlockArchitecture == <<"CS", "BlockArchitecture">>
T_LogicalArchitecture == <<"LA", "LogicalArchitecture">>
T_AbstractInformationFlow == <<"MODELLINGCORE", "AbstractInformationFlow">>
T_AbstractExchangeItem == <<"MODELLINGCORE", "AbstractExchangeItem">>
T_ExchangeItem == <<"INFORMATION", "ExchangeItem">>
T_ComponentExchange == <<"FA", "ComponentExchange">>
T_FunctionalExchange == <<"FA", "FunctionalExchange">>
T_AbstractEvent == <<"BEHAVIOR", "AbstractEvent">>
T_ComponentExchangeFunctionalExchangeAllocation ==
    <<"FA", "ComponentExchangeFunctionalExchangeAllocation">>

\* class C(bases...): the bases this model keeps. A base reached through
\* classes that add no relation used here is given directly.
Supers(q) ==
    CASE q = T_LogicalFunction -> {T_AbstractFunction}
      [] q = T_PhysicalFunction -> {T_AbstractFunction}
      [] q = T_Classifier -> {T_AbstractType, T_GeneralizableElement}
      [] q = T_DataType -> {T_GeneralizableElement}
      [] q = T_Enumeration -> {T_DataType}
      [] q = T_SystemComponent -> {T_Component}
      [] q = T_Entity -> {T_Component, T_InformationsExchanger}
      [] q = T_ConfigurationItem -> {T_Component}
      [] q = T_SystemComponentPkg -> {T_ComponentPkg}
      [] q = T_PhysicalComponentPkg -> {T_ComponentPkg}
      [] q = T_EntityPkg -> {T_ComponentPkg}
      [] q = T_ConfigurationItemPkg -> {T_ComponentPkg}
      [] q = T_OperationalAnalysis -> {T_BlockArchitecture}
      [] q = T_SystemAnalysis -> {T_BlockArchitecture}
      [] q = T_PhysicalArchitecture -> {T_BlockArchitecture}
      [] q = T_EPBSArchitecture -> {T_BlockArchitecture}
      [] q = T_PhysicalComponent -> {T_Component}
      [] q = T_State -> {T_AbstractState}
      [] q = T_Mode -> {T_State}
      [] q = T_LogicalComponent -> {T_Component}
      [] q = T_Component ->
             {T_Block, T_Classifier, T_InterfaceAllocator, T_ModelElement}
      [] q = T_Interface -> {T_InterfaceAllocator}
      [] q = T_PhysicalLinkEnd -> {T_AbstractPhysicalLinkEnd}
      [] q = T_PhysicalLink -> {T_ModelElement}
      [] q = T_BooleanType -> {T_ModelElement, T_DataType}
      [] q = T_AbstractConstraint -> {T_ModelElement}
      [] q = T_Constraint -> {T_AbstractConstraint}
      [] q = T_LiteralBooleanValue -> {T_ValueSpecification}
      [] q = T_LogicalComponentPkg -> {T_ComponentPkg}
      [] q = T_Property -> {T_Feature, T_TypedElement}
      [] q = T_Part -> {T_Property, T_DeployableElement}
      [] q = T_PartDeploymentLink -> {T_AbstractDeploymentLink}
      [] q = T_PhysicalPort -> {T_Port, T_AbstractPhysicalLinkEnd, T_Property}
      [] q = T_ComponentPort -> {T_Port, T_InformationsExchanger, T_Property}
      [] q = T_Port -> {T_ModelElement}
      [] q = T_Service -> {T_Feature}
      [] q = T_Class -> {T_Classifier}
      [] q = T_Union -> {T_Class}
      [] q = T_LogicalArchitecture -> {T_BlockArchitecture}
      [] q = T_ExchangeItem -> {T_AbstractExchangeItem}
      [] q = T_ComponentExchange -> {T_AbstractInformationFlow, T_ModelElement}
      [] q = T_FunctionalExchange -> {T_AbstractEvent, T_ModelElement}
      [] OTHER -> {}

\* The (namespace, tag) pairs for which a class is registered.
Registered ==
    {T_AbstractFunction, T_LogicalFunction, T_Region, T_AbstractState,
     T_State, T_Mode, T_StateTransition, T_AbstractStateRealization,
     T_FunctionRealization, T_Block, T_InterfaceAllocator, T_Component,
     T_LogicalComponent, T_InterfacePkg, T_Interface, T_InterfaceAllocation,
     T_InterfaceUse, T_PhysicalLink, T_AbstractPhysicalLinkEnd,
     T_PhysicalLinkEnd, T_BooleanType, T_LiteralBooleanValue,
     T_AbstractConstraint, T_ValueSpecification, T_Constraint, T_Feature,
     T_Classifier, T_ComponentPkg, T_LogicalComponentPkg, T_Property, T_Part,
     T_PhysicalPort, T_ComponentPort, T_Service, T_Class, T_Union, T_DataPkg,
     T_BlockArchitecture, T_LogicalArchitecture, T_AbstractInformationFlow,
     T_AbstractExchangeItem, T_ExchangeItem, T_ComponentExchange,
     T_FunctionalExchange, T_ComponentExchangeFunctionalExchangeAllocation,
     T_AbstractEvent, T_InterfaceImplementation, T_PhysicalFunction,
     T_PhysicalComponent, T_Port, T_PortRealization, T_PortAllocation,
     T_SystemComponent, T_SystemComponentPkg, T_PhysicalComponentPkg,
     T_Entity, T_EntityPkg, T_ConfigurationItem, T_ConfigurationItemPkg,
     T_TypedElement, T_AbstractType, T_InformationsExchanger,
     T_DeployableElement, T_AbstractDeploymentLink, T_PartDeploymentLink,
     T_GeneralizableElement, T_DataType, T_Enumeration, T_EnumerationLiteral,
     T_SystemEngineering, T_OperationalAnalysis, T_SystemAnalysis,
     T_PhysicalArchitecture, T_EPBSArchitecture,
     T_OperationalAnalysisRealization, T_SystemAnalysisRealization,
     T_LogicalArchitectureRealization, T_PhysicalArchitectureRealization}

RECURSIVE IsA(_, _)
IsA(q, c) == q = c \/ \E s \in Supers(q) : IsA(s, c)

-----------------------------------------------------------------------------
(* Relation specifications: what a descriptor is constructed with           *)

Containment(tag, cls) ==
    [kind |-> "Containment", tag |-> tag, cls |-> cls, link |-> NoType,
     attr |-> "", backattr |-> "", single |-> FALSE, fixed |-> 0,
     paths |-> <<>>]

Association(cls, attr) ==
    [kind |-> "Association", tag |-> "", cls |-> cls, link |-> NoType,
     attr |-> attr, backattr |-> "", single |-> FALSE, fixed |-> 0,
     paths |-> <<>>]

\* Allocation(tag, alloc_type, class_, attr=..., backattr=...); backattr ""
\* stands for an Allocation declared without one.
Allocation(tag, link, cls, attr, backattr) ==
    [kind |-> "Allocation", tag |-> tag, cls |-> cls, link |-> link,
     attr |-> attr, backattr |-> backattr, single |-> FALSE, fixed |-> 0,
     paths |-> <<>>]

\* Backref(class_, *attrs): each attr a dotted path of field names.
Backref(cls, paths) ==
    [kind |-> "Backref", tag |-> "", cls |-> cls, link |-> NoType,
     attr |-> "", backattr |-> "", single |-> FALSE, fixed |-> 0,
     paths |-> paths]

\* Alias(target): the field named target, under a second name.
Alias(target) ==
    [kind |-> "Alias", tag |-> "", cls |-> NoType, link |-> NoType,
     attr |-> "", backattr |-> "", single |-> FALSE, fixed |-> 0,
     paths |-> << <<target>> >>]

\* Filter(attr, class_): the members of the field named attr that are
\* instances of class_.
Filter(target, cls) ==
    [kind |-> "Filter", tag |-> "", cls |-> cls, link |-> NoType,
     attr |-> "", backattr |-> "", single |-> FALSE, fixed |-> 0,
     paths |-> << <<target>> >>]

\* DeprecatedAccessor(target): the field named target under a name kept
\* for compatibility; using it warns.
DeprecatedAccessor(target) ==
    [kind |-> "Deprecated", tag |-> "", cls |-> NoType, link |-> NoType,
     attr |-> "", backattr |-> "", single |-> FALSE, fixed |-> 0,
     paths |-> << <<target>> >>]

Single(rel) == [rel EXCEPT !.single = TRUE]

FixedLength(rel, n) == [rel EXCEPT !.fixed = n]

-----------------------------------------------------------------------------
(* The declarations of the metamodel this model exercises                   *)

\* fa.AbstractFunction
AbstractFunction_functions ==
    Containment("ownedFunctions", T_AbstractFunction)
AbstractFunction_realized_functions ==
    Allocation("ownedFunctionRealizations", T_FunctionRealization,
               T_AbstractFunction, "targetElement", "sourceElement")
AbstractFunction_realizing_functions ==
    Backref(T_AbstractFunction, << <<"realized_functions">> >>)

\* Generalization: the one element a class or a data type extends
GeneralizableElement_super ==
    Single(Association(T_GeneralizableElement, "super"))
DataPkg_data_types == Containment("ownedDataTypes", T_DataType)
Enumeration_owned_literals ==
    Containment("ownedLiterals", T_EnumerationLiteral)

\* Deployment: a part deploys the parts its links name
Part_deployment_links ==
    Containment("ownedDeploymentLinks", T_AbstractDeploymentLink)
AbstractDeploymentLink_deployed_element ==
    Single(Association(T_DeployableElement, "deployedElement"))
PhysicalComponent_owned_components ==
    Containment("ownedPhysicalComponents", T_PhysicalComponent)

\* The element a node lies in: the parent every wrapper has.
ModelElement_parent == [Containment("", NoType) EXCEPT !.kind = "Parent"]

\* Exchanges between components and their ports
AbstractInformationFlow_source ==
    Single(Association(T_InformationsExchanger, "source"))
AbstractInformationFlow_target ==
    Single(Association(T_InformationsExchanger, "target"))
ComponentPort_exchanges ==
    Backref(T_ComponentExchange, << <<"source">>, <<"target">> >>)
ComponentPort_owner == DeprecatedAccessor("parent")
Component_owner == DeprecatedAccessor("parent")
Component_related_exchanges_direct ==
    Backref(T_ComponentExchange, << <<"source">>, <<"target">> >>)
Component_related_exchanges ==
    Backref(T_ComponentExchange,
            << <<"source">>, <<"source", "owner">>,
               <<"target">>, <<"target", "owner">> >>)

\* Where components are kept, layer by layer
LogicalComponent_components ==
    Containment("ownedLogicalComponents", T_LogicalComponent)
SystemComponentPkg_components ==
    Containment("ownedSystemComponents", T_SystemComponent)
PhysicalComponentPkg_components ==
    Containment("ownedPhysicalComponents", T_PhysicalComponent)
EntityPkg_entities == Containment("ownedEntities", T_Entity)
ConfigurationItemPkg_configuration_items ==
    Containment("ownedConfigurationItems", T_ConfigurationItem)

\* modellingcore.TypedElement, cs.Component
TypedElement_type == Single(Association(T_AbstractType, "abstractType"))
Component_representing_parts == Backref(T_Part, << <<"type">> >>)

\* The _xmltag a concrete Component class declares; "" where it has none.
XmlTag(q) ==
    CASE q = T_LogicalComponent -> "ownedLogicalComponents"
      [] q = T_SystemComponent -> "ownedSystemComponents"
      [] q = T_PhysicalComponent -> "ownedPhysicalComponents"
      [] q = T_Entity -> "ownedEntities"
      [] OTHER -> ""

\* The realizations between the architecture layers
SystemAnalysis_realized_operational_analysis ==
    Allocation("ownedOperationalAnalysisRealizations",
               T_OperationalAnalysisRealization, T_OperationalAnalysis,
               "targetElement", "sourceElement")
LogicalArchitecture_realized_system_analysis ==
    Allocation("ownedSystemAnalysisRealizations",
               T_SystemAnalysisRealization, T_SystemAnalysis,
               "targetElement", "sourceElement")
PhysicalArchitecture_realized_logical_architectures ==
    Allocation("ownedLogicalArchitectureRealizations",
               T_LogicalArchitectureRealization, T_LogicalArchitecture,
               "sourceElement", "targetElement")
EPBSArchitecture_realized_physical_architecture ==
    Single(Allocation("ownedPhysicalArchitectureRealizations",
                      T_PhysicalArchitectureRealization,
                      T_PhysicalArchitecture,
                      "targetElement", "sourceElement"))

\* information.Port
Port_port_realizations ==
    Containment("ownedPortRealizations", T_PortRealization)
Port_realized_ports ==
    Allocation("ownedPortRealizations", T_PortRealization, T_Port,
               "targetElement", "sourceElement")
Port_port_allocations ==
    Containment("ownedPortAllocations", T_PortAllocation)
Port_allocated_ports ==
    Allocation("ownedPortRealizations", T_PortRealization, T_Port,
               "targetElement", "sourceElement")

\* pa.PhysicalFunction
PhysicalFunction_functions ==
    Containment("ownedPhysicalComponents", T_PhysicalComponent)

\* capellacommon.Region
Region_states == Containment("ownedStates", T_AbstractState)
Region_transitions == Containment("ownedTransitions", T_StateTransition)

\* capellacommon.Region: the private filter behind the modes property, and
\* the property, which warns and returns it
Region___modes_states == Filter("states", T_State)
Region___modes == Filter("states", T_Mode)
Region_modes == DeprecatedAccessor("__modes")

\* capellacommon.AbstractState
AbstractState_state_realizations ==
    Containment("ownedAbstractStateRealizations", T_AbstractStateRealization)
AbstractState_realized_states ==
    Allocation("ownedAbstractStateRealizations", T_AbstractStateRealization,
               T_AbstractState, "targetElement", "sourceElement")
AbstractState_realizing_states ==
    Backref(T_AbstractState, << <<"realized_states">> >>)
AbstractState_incoming_transitions_bysource ==
    Backref(T_StateTransition, << <<"source">> >>)
AbstractState_incoming_transitions ==
    Backref(T_StateTransition, << <<"target">> >>)
AbstractState_outgoing_transitions ==
    Backref(T_StateTransition, << <<"source">> >>)

\* capellacommon.State
State_regions == Containment("ownedRegions", T_Region)

State_entry == Association(T_AbstractEvent, "entry")
State_entries == DeprecatedAccessor("entry")

\* capellacommon.StateTransition
StateTransition_source ==
    Single(Association(T_AbstractState, "source"))
StateTransition_target ==
    Single(Association(T_AbstractState, "target"))

\* cs.Block
Block_interface_pkg ==
    Single(Containment("ownedInterfacePkg", T_InterfacePkg))

\* cs.InterfaceAllocator
InterfaceAllocator_allocated_interfaces ==
    Allocation("ownedInterfaceAllocations", T_InterfaceAllocation,
               T_Interface, "targetElement", "sourceElement")

\* cs.Component
Component_used_interfaces_withback ==
    Allocation("ownedInterfaceUses", T_InterfaceUse, T_Interface,
               "usedInterface", "sourceElement")
Component_used_interfaces ==
    Allocation("ownedInterfaceUses", T_InterfaceUse, T_Interface,
               "usedInterface", "")

\* capellacore.Classifier
Classifier_owned_features == Containment("ownedFeatures", T_Feature)

\* cs.Component: typed views of the owned features
Component_ports_unfiltered == Alias("owned_features")
Component_ports == Filter("owned_features", T_ComponentPort)
Component_physical_ports == Filter("owned_features", T_PhysicalPort)
Component_owned_parts == Filter("owned_features", T_Part)

\* information.Class
Class_owned_properties == Filter("owned_features", T_Property)

\* cs.BlockArchitecture
BlockArchitecture_interface_pkg ==
    Single(Containment("ownedInterfacePkg", T_InterfacePkg))
BlockArchitecture_data_pkg_many == Containment("ownedDataPkg", T_DataPkg)
BlockArchitecture_data_pkg == Single(Containment("ownedDataPkg", T_DataPkg))

\* information.DataPkg
DataPkg_packages == Containment("ownedDataPkgs", T_DataPkg)
DataPkg_classes == Containment("ownedClasses", T_Class)
DataPkg_unions == Filter("classes", T_Union)

\* cs.ComponentPkg, la.LogicalComponentPkg
ComponentPkg_parts == Containment("ownedParts", T_Part)
ComponentPkg_owned_parts_components == Alias("components")
ComponentPkg_owned_parts == Alias("parts")
LogicalComponentPkg_components ==
    Containment("ownedLogicalComponents", T_LogicalComponent)

\* modellingcore.AbstractInformationFlow
AbstractInformationFlow_convoyed_informations ==
    Association(T_AbstractExchangeItem, "convoyedInformations")

\* fa.FunctionalExchange
FunctionalExchange_exchanged_items ==
    Association(T_ExchangeItem, "exchangedItems")
FunctionalExchange_owner ==
    Single(Backref(T_ComponentExchange,
                   << <<"allocated_functional_exchanges">> >>))
FunctionalExchange_allocating_component_exchange == Alias("owner")

\* fa.ComponentExchange
ComponentExchange_allocated_functional_exchanges ==
    Allocation("ownedComponentExchangeFunctionalExchangeAllocations",
               T_ComponentExchangeFunctionalExchangeAllocation,
               T_FunctionalExchange, "targetElement", "sourceElement")

Component_interface_uses == Containment("ownedInterfaceUses", T_InterfaceUse)
Component_interface_implementations ==
    Containment("ownedInterfaceImplementations", T_InterfaceImplementation)
Component_implemented_interfaces ==
    Allocation("ownedInterfaceImplementations", T_InterfaceImplementation,
               T_Interface, "implementedInterfaces", "")

\* cs.InterfaceImplementation, cs.InterfaceUse
InterfaceImplementation_implemented_interface ==
    Single(Association(T_Interface, "implementedInterface"))
InterfaceUse_used_interface ==
    Single(Association(T_Interface, "usedInterface"))

\* cs.InterfacePkg
InterfacePkg_interfaces == Containment("ownedInterfaces", T_Interface)

\* cs.PhysicalLink
PhysicalLink_ends_unbounded ==
    Association(T_AbstractPhysicalLinkEnd, "linkEnds")
PhysicalLink_ends ==
    FixedLength(Association(T_AbstractPhysicalLinkEnd, "linkEnds"), 2)
PhysicalLink_physical_link_ends ==
    Containment("ownedPhysicalLinkEnds", T_PhysicalLinkEnd)

\* information.datatype.BooleanType
BooleanType_literals ==
    FixedLength(Containment("ownedLiterals", T_LiteralBooleanValue), 2)

\* modellingcore
ModelElement_extensions == Containment("ownedExtensions", T_ModelElement)
ModelElement_constraints == Containment("ownedConstraints", T_Constraint)
AbstractConstraint_specification_many ==
    Containment("ownedSpecification", T_ValueSpecification)
AbstractConstraint_specification ==
    Single(Containment("ownedSpecification", T_ValueSpecification))

\* The attribute names under which nodes of this model hold references.
Attrs ==
    {"source", "target", "sourceElement", "targetElement", "usedInterface",
     "linkEnds", "convoyedInformations", "exchangedItems", "entry",
     "implementedInterface", "implementedInterfaces", "abstractType",
     "super", "deployedElement"}

-----------------------------------------------------------------------------
(* The backing tree                                                         *)

Used(T) == 1..(T.next - 1)

EmptyRefs == [a \in Attrs |-> <<>>]

\* One attached root node of the given tag and type, nothing else.
RootOnly(tag, q, cap) ==
    [qtype  |-> [n \in Nodes |-> IF n = Root THEN q ELSE NoType],
     name   |-> [n \in Nodes |-> ""],
     actor  |-> [n \in Nodes |-> FALSE],
     tag    |-> [n \in Nodes |-> IF n = Root THEN tag ELSE ""],
     parent |-> [n \in Nodes |-> NoNode],
     kids   |-> [n \in Nodes |-> <<>>],
     refs   |-> [n \in Nodes |-> EmptyRefs],
     next   |-> Root + 1,
     cap    |-> cap]

RECURSIVE TopOf(_, _)
TopOf(T, n) == IF T.parent[n] = NoNode THEN n ELSE TopOf(T, T.parent[n])

\* n is part of the document: reachable from the root through child lists.
InTree(T, n) == n \in Used(T) /\ TopOf(T, n) = Root

RECURSIVE Ancestors(_, _)
Ancestors(T, n) ==
    IF T.parent[n] = NoNode THEN {}
    ELSE {T.parent[n]} \cup Ancestors(T, T.parent[n])

\* n and every node transitively contained in it.
Subtree(T, n) == {m \in Used(T) : m = n \/ n \in Ancestors(T, m)}

RECURSIVE Flatten(_)
Flatten(ss) == IF ss = <<>> THEN <<>> ELSE Head(ss) \o Flatten(Tail(ss))

\* Depth-first, document-order walk of the subtree rooted at n.
RECURSIVE DocOrder(_, _)
DocOrder(T, n) ==
    <<n>> \o Flatten([i \in 1..Len(T.kids[n]) |-> DocOrder(T, T.kids[n][i])])

SeqToSet(s) == {s[i] : i \in 1..Len(s)}

InsertAt(s, pos, x) ==
    SubSeq(s, 1, pos - 1) \o <<x>> \o SubSeq(s, pos, Len(s))

RemoveAt(s, pos) == SubSeq(s, 1, pos - 1) \o SubSeq(s, pos + 1, Len(s))

\* Index of the first occurrence of x in s (0: none).
IndexOf(s, x) ==
    IF \E i \in 1..Len(s) : s[i] = x
    THEN CHOOSE i \in 1..Len(s) : s[i] = x /\ \A j \in 1..(i - 1) : s[j] # x
    ELSE 0

Count(s, x) == Cardinality({i \in 1..Len(s) : s[i] = x})

\* create_node(tag, parent): a fresh node as the pos-th child of parent.
CreateNode(T, o, pos, tag, q) ==
    LET n == T.next IN
    [T EXCEPT !.qtype[n] = q, !.tag[n] = tag, !.parent[n] = o,
              !.kids[o] = InsertAt(T.kids[o], pos, n), !.next = n + 1]

\* The document as loaded from a file: nodes[i] = <<parent, tag, type>> in
\* document order, appended below a root of the given tag and type.
RECURSIVE LoadFrom(_, _)
LoadFrom(T, nodes) ==
    IF nodes = <<>> THEN T
    ELSE LoadFrom(CreateNode(T, Head(nodes)[1],
                             Len(T.kids[Head(nodes)[1]]) + 1,
                             Head(nodes)[2], Head(nodes)[3]),
                  Tail(nodes))

\* Reference attributes as they would be if a removal also cleared every
\* reference to a removed node.
RefsAfterRemoval_cleared(T, gone) ==
    [n \in Nodes |->
        IF n \in gone THEN EmptyRefs
        ELSE [a \in Attrs |->
                 SelectSeq(T.refs[n][a], LAMBDA r : r \notin gone)]]

\* Reference attributes after the nodes of `gone` left the document: the
\* removed nodes' own attributes go with them, every other node keeps its
\* references as stored, also those that name a removed node.
RefsAfterRemoval(T, gone) ==
    [n \in Nodes |-> IF n \in gone THEN EmptyRefs ELSE T.refs[n]]

\* Take child c out of o's child list: c and all it contains leave the
\* document, which keeps nothing of them.
Detach(T, o, c) ==
    LET gone == Subtree(T, c) IN
    [T EXCEPT
        !.kids   = [n \in Nodes |->
                       IF n \in gone THEN <<>>
                       ELSE IF n = o
                       THEN RemoveAt(T.kids[o], IndexOf(T.kids[o], c))
                       ELSE T.kids[n]],
        !.parent = [n \in Nodes |-> IF n \in gone THEN NoNode ELSE T.parent[n]],
        !.qtype  = [n \in Nodes |-> IF n \in gone THEN NoType ELSE T.qtype[n]],
        !.tag    = [n \in Nodes |-> IF n \in gone THEN "" ELSE T.tag[n]],
        !.refs   = RefsAfterRemoval(T, gone)]

SetRefs(T, n, attr, targets) == [T EXCEPT !.refs[n][attr] = targets]

-----------------------------------------------------------------------------
(* Field tables: the bindings a wrapper type carries                        *)

\* Field id -> its relation specification.
Decl(f) ==
    CASE f = "AbstractFunction.functions" -> AbstractFunction_functions
      [] f = "PhysicalFunction.functions" -> PhysicalFunction_functions
      [] f = "SystemAnalysis.realized_operational_analysis" ->
             SystemAnalysis_realized_operational_analysis
      [] f = "LogicalArchitecture.realized_system_analysis" ->
             LogicalArchitecture_realized_system_analysis
      [] f = "PhysicalArchitecture.realized_logical_architectures" ->
             PhysicalArchitecture_realized_logical_architectures
      [] f = "EPBSArchitecture.realized_physical_architecture" ->
             EPBSArchitecture_realized_physical_architecture
      [] f = "LogicalComponent.components" ->
             LogicalComponent_components
      [] f = "SystemComponentPkg.components" ->
             SystemComponentPkg_components
      [] f = "PhysicalComponentPkg.components" ->
             PhysicalComponentPkg_components
      [] f = "EntityPkg.entities" ->
             EntityPkg_entities
      [] f = "ConfigurationItemPkg.configuration_items" ->
             ConfigurationItemPkg_configuration_items
      [] f = "TypedElement.type" ->
             TypedElement_type
      [] f = "Component.representing_parts" ->
             Component_representing_parts
      [] f = "ModelElement.parent" ->
             ModelElement_parent
      [] f = "AbstractInformationFlow.source" ->
             AbstractInformationFlow_source
      [] f = "AbstractInformationFlow.target" ->
             AbstractInformationFlow_target
      [] f = "ComponentPort.exchanges" ->
             ComponentPort_exchanges
      [] f = "ComponentPort.owner" ->
             ComponentPort_owner
      [] f = "Component.owner" ->
             Component_owner
      [] f = "Component.related_exchanges" ->
             Component_related_exchanges
      [] f = "GeneralizableElement.super" ->
             GeneralizableElement_super
      [] f = "DataPkg.data_types" ->
             DataPkg_data_types
      [] f = "Enumeration.owned_literals" ->
             Enumeration_owned_literals
      [] f = "Part.deployment_links" ->
             Part_deployment_links
      [] f = "AbstractDeploymentLink.deployed_element" ->
             AbstractDeploymentLink_deployed_element
      [] f = "PhysicalComponent.owned_components" ->
             PhysicalComponent_owned_components
      [] f = "Port.port_realizations" -> Port_port_realizations
      [] f = "Port.realized_ports" -> Port_realized_ports
      [] f = "Port.port_allocations" -> Port_port_allocations
      [] f = "Port.allocated_ports" -> Port_allocated_ports
      [] f = "Region.states" -> Region_states
      [] f = "Region.transitions" -> Region_transitions
      [] f = "AbstractState.state_realizations" ->
             AbstractState_state_realizations
      [] f = "AbstractState.realized_states" -> AbstractState_realized_states
      [] f = "AbstractState.realizing_states" ->
             AbstractState_realizing_states
      [] f = "AbstractState.incoming_transitions" ->
             AbstractState_incoming_transitions
      [] f = "AbstractState.outgoing_transitions" ->
             AbstractState_outgoing_transitions
      [] f = "State.regions" -> State_regions
      [] f = "StateTransition.source" -> StateTransition_source
      [] f = "StateTransition.target" -> StateTransition_target
      [] f = "AbstractFunction.realized_functions" ->
             AbstractFunction_realized_functions
      [] f = "AbstractFunction.realizing_functions" ->
             AbstractFunction_realizing_functions
      [] f = "Block.interface_pkg" -> Block_interface_pkg
      [] f = "InterfaceAllocator.allocated_interfaces" ->
             InterfaceAllocator_allocated_interfaces
      [] f = "Component.used_interfaces" -> Component_used_interfaces
      [] f = "InterfacePkg.interfaces" -> InterfacePkg_interfaces
      [] f = "PhysicalLink.ends" -> PhysicalLink_ends
      [] f = "PhysicalLink.physical_link_ends" ->
             PhysicalLink_physical_link_ends
      [] f = "BooleanType.literals" -> BooleanType_literals
      [] f = "ModelElement.extensions" -> ModelElement_extensions
      [] f = "ModelElement.constraints" -> ModelElement_constraints
      [] f = "AbstractConstraint.specification" ->
             AbstractConstraint_specification
      [] f = "Classifier.owned_features" ->
             Classifier_owned_features
      [] f = "Component.ports" ->
             Component_ports
      [] f = "Component.physical_ports" ->
             Component_physical_ports
      [] f = "Component.owned_parts" ->
             Component_owned_parts
      [] f = "Class.owned_properties" ->
             Class_owned_properties
      [] f = "ComponentPkg.parts" ->
             ComponentPkg_parts
      [] f = "Component.interface_uses" ->
             Component_interface_uses
      [] f = "Component.interface_implementations" ->
             Component_interface_implementations
      [] f = "Component.implemented_interfaces" ->
             Component_implemented_interfaces
      [] f = "InterfaceImplementation.implemented_interface" ->
             InterfaceImplementation_implemented_interface
      [] f = "InterfaceUse.used_interface" ->
             InterfaceUse_used_interface
      [] f = "Region.__modes" ->
             Region___modes
      [] f = "Region.modes" ->
             Region_modes
      [] f = "State.entry" ->
             State_entry
      [] f = "State.entries" ->
             State_entries
      [] f = "BlockArchitecture.interface_pkg" ->
             BlockArchitecture_interface_pkg
      [] f = "BlockArchitecture.data_pkg" ->
             BlockArchitecture_data_pkg
      [] f = "DataPkg.packages" ->
             DataPkg_packages
      [] f = "DataPkg.classes" ->
             DataPkg_classes
      [] f = "DataPkg.unions" ->
             DataPkg_unions
      [] f = "ComponentPkg.owned_parts" ->
             ComponentPkg_owned_parts
      [] f = "LogicalComponentPkg.components" ->
             LogicalComponentPkg_components
      [] f = "AbstractInformationFlow.convoyed_informations" ->
             AbstractInformationFlow_convoyed_informations
      [] f = "FunctionalExchange.exchanged_items" ->
             FunctionalExchange_exchanged_items
      [] f = "FunctionalExchange.owner" ->
             FunctionalExchange_owner
      [] f = "FunctionalExchange.allocating_component_exchange" ->
             FunctionalExchange_allocating_component_exchange
      [] f = "ComponentExchange.allocated_functional_exchanges" ->
             ComponentExchange_allocated_functional_exchanges

\* Field id -> the class that declares it.
Owner(f) ==
    CASE f \in {"AbstractFunction.functions",
                "AbstractFunction.realized_functions",
                "AbstractFunction.realizing_functions"} -> T_AbstractFunction
      [] f = "PhysicalFunction.functions" -> T_PhysicalFunction
      [] f = "SystemAnalysis.realized_operational_analysis" ->
             T_SystemAnalysis
      [] f = "LogicalArchitecture.realized_system_analysis" ->
             T_LogicalArchitecture
      [] f = "PhysicalArchitecture.realized_logical_architectures" ->
             T_PhysicalArchitecture
      [] f = "EPBSArchitecture.realized_physical_architecture" ->
             T_EPBSArchitecture
      [] f = "LogicalComponent.components" ->
             T_LogicalComponent
      [] f = "SystemComponentPkg.components" ->
             T_SystemComponentPkg
      [] f = "PhysicalComponentPkg.components" ->
             T_PhysicalComponentPkg
      [] f = "EntityPkg.entities" ->
             T_EntityPkg
      [] f = "ConfigurationItemPkg.configuration_items" ->
             T_ConfigurationItemPkg
      [] f = "TypedElement.type" ->
             T_TypedElement
      [] f = "Component.representing_parts" ->
             T_Component
      [] f = "ModelElement.parent" ->
             T_ModelElement
      [] f = "AbstractInformationFlow.source" ->
             T_AbstractInformationFlow
      [] f = "AbstractInformationFlow.target" ->
             T_AbstractInformationFlow
      [] f = "ComponentPort.exchanges" ->
             T_ComponentPort
      [] f = "ComponentPort.owner" ->
             T_ComponentPort
      [] f = "Component.owner" ->
             T_Component
      [] f = "Component.related_exchanges" ->
             T_Component
      [] f = "GeneralizableElement.super" ->
             T_GeneralizableElement
      [] f = "DataPkg.data_types" ->
             T_DataPkg
      [] f = "Enumeration.owned_literals" ->
             T_Enumeration
      [] f = "Part.deployment_links" ->
             T_Part
      [] f = "AbstractDeploymentLink.deployed_element" ->
             T_AbstractDeploymentLink
      [] f = "PhysicalComponent.owned_components" ->
             T_PhysicalComponent
      [] f \in {"Port.port_realizations", "Port.realized_ports",
                "Port.port_allocations", "Port.allocated_ports"} -> T_Port
      [] f = "Block.interface_pkg" -> T_Block
      [] f = "InterfaceAllocator.allocated_interfaces" ->
             T_InterfaceAllocator
      [] f = "Component.used_interfaces" -> T_Component
      [] f = "InterfacePkg.interfaces" -> T_InterfacePkg
      [] f \in {"PhysicalLink.ends", "PhysicalLink.physical_link_ends"} ->
             T_PhysicalLink
      [] f = "BooleanType.literals" -> T_BooleanType
      [] f \in {"ModelElement.extensions", "ModelElement.constraints"} ->
             T_ModelElement
      [] f = "AbstractConstraint.specification" -> T_AbstractConstraint
      [] f \in {"Region.states", "Region.transitions"} -> T_Region
      [] f \in {"AbstractState.state_realizations",
                "AbstractState.realized_states",
                "AbstractState.realizing_states",
                "AbstractState.incoming_transitions",
                "AbstractState.outgoing_transitions"} -> T_AbstractState
      [] f = "State.regions" -> T_State
      [] f \in {"StateTransition.source", "StateTransition.target"} ->
             T_StateTransition
      [] f = "Classifier.owned_features" ->
             T_Classifier
      [] f = "Component.ports" ->
             T_Component
      [] f = "Component.physical_ports" ->
             T_Component
      [] f = "Component.owned_parts" ->
             T_Component
      [] f = "Class.owned_properties" ->
             T_Class
      [] f = "ComponentPkg.parts" ->
             T_ComponentPkg
      [] f = "Component.interface_uses" ->
             T_Component
      [] f = "Component.interface_implementations" ->
             T_Component
      [] f = "Component.implemented_interfaces" ->
             T_Component
      [] f = "InterfaceImplementation.implemented_interface" ->
             T_InterfaceImplementation
      [] f = "InterfaceUse.used_interface" ->
             T_InterfaceUse
      [] f = "Region.__modes" ->
             T_Region
      [] f = "Region.modes" ->
             T_Region
      [] f = "State.entry" ->
             T_State
      [] f = "State.entries" ->
             T_State
      [] f = "BlockArchitecture.interface_pkg" ->
             T_BlockArchitecture
      [] f = "BlockArchitecture.data_pkg" ->
             T_BlockArchitecture
      [] f = "DataPkg.packages" ->
             T_DataPkg
      [] f = "DataPkg.classes" ->
             T_DataPkg
      [] f = "DataPkg.unions" ->
             T_DataPkg
      [] f = "ComponentPkg.owned_parts" ->
             T_ComponentPkg
      [] f = "LogicalComponentPkg.components" ->
             T_LogicalComponentPkg
      [] f = "AbstractInformationFlow.convoyed_informations" ->
             T_AbstractInformationFlow
      [] f = "FunctionalExchange.exchanged_items" ->
             T_FunctionalExchange
      [] f = "FunctionalExchange.owner" ->
             T_FunctionalExchange
      [] f = "FunctionalExchange.allocating_component_exchange" ->
             T_FunctionalExchange
      [] f = "ComponentExchange.allocated_functional_exchanges" ->
             T_ComponentExchange

Fields ==
    {"AbstractFunction.functions", "PhysicalFunction.functions",
     "Port.port_realizations", "Port.realized_ports",
     "Port.port_allocations", "Port.allocated_ports",
     "Part.deployment_links",
     "AbstractDeploymentLink.deployed_element",
     "PhysicalComponent.owned_components",
     "GeneralizableElement.super",
     "DataPkg.data_types",
     "Enumeration.owned_literals",
     "ModelElement.parent",
     "AbstractInformationFlow.source",
     "AbstractInformationFlow.target",
     "ComponentPort.exchanges",
     "ComponentPort.owner",
     "Component.owner",
     "Component.related_exchanges",
     "LogicalComponent.components",
     "SystemComponentPkg.components",
     "PhysicalComponentPkg.components",
     "EntityPkg.entities",
     "ConfigurationItemPkg.configuration_items",
     "TypedElement.type",
     "Component.representing_parts",
     "SystemAnalysis.realized_operational_analysis",
     "LogicalArchitecture.realized_system_analysis",
     "PhysicalArchitecture.realized_logical_architectures",
     "EPBSArchitecture.realized_physical_architecture",
     "Region.states", "Region.transitions",
     "AbstractState.state_realizations", "AbstractState.realized_states",
     "AbstractState.realizing_states", "AbstractState.incoming_transitions",
     "AbstractState.outgoing_transitions", "State.regions",
     "StateTransition.source", "StateTransition.target",
     "AbstractFunction.realized_functions",
     "AbstractFunction.realizing_functions", "Block.interface_pkg",
     "InterfaceAllocator.allocated_interfaces", "Component.used_interfaces",
     "InterfacePkg.interfaces", "PhysicalLink.ends",
     "PhysicalLink.physical_link_ends", "BooleanType.literals",
     "ModelElement.extensions", "ModelElement.constraints",
     "AbstractConstraint.specification",
     "Classifier.owned_features",
     "Component.ports",
     "Component.physical_ports",
     "Component.owned_parts",
     "Class.owned_properties",
     "Region.__modes", "Region.modes", "State.entry", "State.entries",
     "Component.interface_uses", "Component.interface_implementations",
     "Component.implemented_interfaces",
     "InterfaceImplementation.implemented_interface",
     "InterfaceUse.used_interface",
     "ComponentPkg.parts", "BlockArchitecture.interface_pkg",
     "BlockArchitecture.data_pkg", "DataPkg.packages",
     "DataPkg.classes", "DataPkg.unions",
     "ComponentPkg.owned_parts",
     "LogicalComponentPkg.components",
     "AbstractInformationFlow.convoyed_informations",
     "FunctionalExchange.exchanged_items",
     "FunctionalExchange.owner",
     "FunctionalExchange.allocating_component_exchange",
     "ComponentExchange.allocated_functional_exchanges"}

\* The part of a field id after the class name.
AttrName(f) ==
    CASE f = "AbstractFunction.functions" -> "functions"
      [] f = "PhysicalFunction.functions" -> "functions"
      [] f = "SystemAnalysis.realized_operational_analysis" ->
             "realized_operational_analysis"
      [] f = "LogicalArchitecture.realized_system_analysis" ->
             "realized_system_analysis"
      [] f = "PhysicalArchitecture.realized_logical_architectures" ->
             "realized_logical_architectures"
      [] f = "EPBSArchitecture.realized_physical_architecture" ->
             "realized_physical_architecture"
      [] f = "LogicalComponent.components" ->
             "components"
      [] f = "SystemComponentPkg.components" ->
             "components"
      [] f = "PhysicalComponentPkg.components" ->
             "components"
      [] f = "EntityPkg.entities" ->
             "entities"
      [] f = "ConfigurationItemPkg.configuration_items" ->
             "configuration_items"
      [] f = "TypedElement.type" ->
             "type"
      [] f = "Component.representing_parts" ->
             "representing_parts"
      [] f = "ModelElement.parent" ->
             "parent"
      [] f = "AbstractInformationFlow.source" ->
             "source"
      [] f = "AbstractInformationFlow.target" ->
             "target"
      [] f = "ComponentPort.exchanges" ->
             "exchanges"
      [] f = "ComponentPort.owner" ->
             "owner"
      [] f = "Component.owner" ->
             "owner"
      [] f = "Component.related_exchanges" ->
             "related_exchanges"
      [] f = "GeneralizableElement.super" ->
             "super"
      [] f = "DataPkg.data_types" ->
             "data_types"
      [] f = "Enumeration.owned_literals" ->
             "owned_literals"
      [] f = "Part.deployment_links" ->
             "deployment_links"
      [] f = "AbstractDeploymentLink.deployed_element" ->
             "deployed_element"
      [] f = "PhysicalComponent.owned_components" ->
             "owned_components"
      [] f = "Port.port_realizations" -> "port_realizations"
      [] f = "Port.realized_ports" -> "realized_ports"
      [] f = "Port.port_allocations" -> "port_allocations"
      [] f = "Port.allocated_ports" -> "allocated_ports"
      [] f = "Region.states" -> "states"
      [] f = "Region.transitions" -> "transitions"
      [] f = "AbstractState.state_realizations" -> "state_realizations"
      [] f = "AbstractState.realized_states" -> "realized_states"
      [] f = "AbstractState.realizing_states" -> "realizing_states"
      [] f = "AbstractState.incoming_transitions" -> "incoming_transitions"
      [] f = "AbstractState.outgoing_transitions" -> "outgoing_transitions"
      [] f = "State.regions" -> "regions"
      [] f = "StateTransition.source" -> "source"
      [] f = "StateTransition.target" -> "target"
      [] f = "AbstractFunction.realized_functions" -> "realized_functions"
      [] f = "AbstractFunction.realizing_functions" -> "realizing_functions"
      [] f = "Block.interface_pkg" -> "interface_pkg"
      [] f = "InterfaceAllocator.allocated_interfaces" ->
             "allocated_interfaces"
      [] f = "Component.used_interfaces" -> "used_interfaces"
      [] f = "InterfacePkg.interfaces" -> "interfaces"
      [] f = "PhysicalLink.ends" -> "ends"
      [] f = "PhysicalLink.physical_link_ends" -> "physical_link_ends"
      [] f = "BooleanType.literals" -> "literals"
      [] f = "ModelElement.extensions" -> "extensions"
      [] f = "ModelElement.constraints" -> "constraints"
      [] f = "AbstractConstraint.specification" -> "specification"
      [] f = "Classifier.owned_features" ->
             "owned_features"
      [] f = "Component.ports" ->
             "ports"
      [] f = "Component.physical_ports" ->
             "physical_ports"
      [] f = "Component.owned_parts" ->
             "owned_parts"
      [] f = "Class.owned_properties" ->
             "owned_properties"
      [] f = "ComponentPkg.parts" ->
             "parts"
      [] f = "Component.interface_uses" ->
             "interface_uses"
      [] f = "Component.interface_implementations" ->
             "interface_implementations"
      [] f = "Component.implemented_interfaces" ->
             "implemented_interfaces"
      [] f = "InterfaceImplementation.implemented_interface" ->
             "implemented_interface"
      [] f = "InterfaceUse.used_interface" ->
             "used_interface"
      [] f = "Region.__modes" ->
             "__modes"
      [] f = "Region.modes" ->
             "modes"
      [] f = "State.entry" ->
             "entry"
      [] f = "State.entries" ->
             "entries"
      [] f = "BlockArchitecture.interface_pkg" ->
             "interface_pkg"
      [] f = "BlockArchitecture.data_pkg" ->
             "data_pkg"
      [] f = "DataPkg.packages" ->
             "packages"
      [] f = "DataPkg.classes" ->
             "classes"
      [] f = "DataPkg.unions" ->
             "unions"
      [] f = "ComponentPkg.owned_parts" ->
             "owned_parts"
      [] f = "LogicalComponentPkg.components" ->
             "components"
      [] f = "AbstractInformationFlow.convoyed_informations" ->
             "convoyed_informations"
      [] f = "FunctionalExchange.exchanged_items" ->
             "exchanged_items"
      [] f = "FunctionalExchange.owner" ->
             "owner"
      [] f = "FunctionalExchange.allocating_component_exchange" ->
             "allocating_component_exchange"
      [] f = "ComponentExchange.allocated_functional_exchanges" ->
             "allocated_functional_exchanges"

\* Attribute lookup on a wrapper of type q: the fields its classes declare.
HasField(q, name) ==
    \E f \in Fields : AttrName(f) = name /\ IsA(q, Owner(f))

\* A name declared again in a subclass hides the declaration it inherits.
Declares(q, name) ==
    {f \in Fields : AttrName(f) = name /\ IsA(q, Owner(f))}

FieldOf(q, name) ==
    Decl(CHOOSE f \in Declares(q, name) :
             \A g \in Declares(q, name) : IsA(Owner(f), Owner(g)))

\* The relation a field name leads to on a wrapper of type q: an Alias or
\* a DeprecatedAccessor stands for the field it names.
RECURSIVE Resolved(_, _)
Resolved(q, rel) ==
    IF rel.kind \in {"Alias", "Deprecated"} THEN Resolved(q, FieldOf(q, rel.paths[1][1]))
    ELSE rel

-----------------------------------------------------------------------------
(* Reading a relation                                                       *)

\* A stored reference as a Collection member: the node, or the dangling
\* marker when the referent is no longer part of the tree.
Member(T, r) == IF InTree(T, r) THEN r ELSE Dangling

ContainmentGet(T, o, rel) ==
    SelectSeq(T.kids[o], LAMBDA c : T.tag[c] = rel.tag)

AssociationGet(T, o, rel) ==
    [i \in 1..Len(T.refs[o][rel.attr]) |-> Member(T, T.refs[o][rel.attr][i])]

\* The owned link nodes, then each link's target-reference attribute.
AllocationGet(T, o, rel) ==
    LET links == ContainmentGet(T, o, rel) IN
    Flatten([i \in 1..Len(links) |->
        [j \in 1..Len(T.refs[links[i]][rel.attr]) |->
            Member(T, T.refs[links[i]][rel.attr][j])]])

RECURSIVE Get(_, _, _)
RECURSIVE Follow(_, _, _)

\* Follow a dotted path of field names from node c; dangling members and
\* objects without the field contribute nothing.
Follow(T, c, path) ==
    IF path = <<>> THEN <<c>>
    ELSE IF ~HasField(T.qtype[c], Head(path)) THEN <<>>
    ELSE LET first == Get(T, c, FieldOf(T.qtype[c], Head(path))) IN
         Flatten([i \in 1..Len(first) |->
             IF first[i] = Dangling THEN <<>>
             ELSE Follow(T, first[i], Tail(path))])

\* Scan the model in document order for objects of the declared class one
\* of whose forward paths leads to x.
BackrefGet(T, x, rel) ==
    SelectSeq(DocOrder(T, Root), LAMBDA c :
        /\ IsA(T.qtype[c], rel.cls)
        /\ \E p \in 1..Len(rel.paths) :
               x \in SeqToSet(Follow(T, c, rel.paths[p])))

Get(T, o, rel) ==
    CASE rel.kind = "Containment" -> ContainmentGet(T, o, rel)
      [] rel.kind = "Association" -> AssociationGet(T, o, rel)
      [] rel.kind = "Allocation" -> AllocationGet(T, o, rel)
      [] rel.kind = "Backref" -> BackrefGet(T, o, rel)
      [] rel.kind = "Parent" ->
             IF T.parent[o] = NoNode THEN <<>> ELSE <<T.parent[o]>>
      [] rel.kind \in {"Alias", "Deprecated"} ->
             Get(T, o, FieldOf(T.qtype[o], rel.paths[1][1]))
      [] rel.kind = "Filter" ->
             SelectSeq(Get(T, o, FieldOf(T.qtype[o], rel.paths[1][1])),
                       LAMBDA c : c # Dangling /\ IsA(T.qtype[c], rel.cls))

\* AbstractFunction.is_leaf: not self.functions
AbstractFunction_is_leaf(T, o) ==
    Get(T, o, FieldOf(T.qtype[o], "functions")) = <<>>

\* search(typeConstraint, below=scope)
Search(T, q, scope) ==
    SelectSeq(DocOrder(T, scope), LAMBDA c : IsA(T.qtype[c], q))

\* Collection.map(name): read the field on every member and flatten;
\* members without the field and dangling members contribute nothing.
Map(T, xs, name) ==
    Flatten([i \in 1..Len(xs) |->
        IF xs[i] = Dangling THEN <<>>
        ELSE IF ~HasField(T.qtype[xs[i]], name) THEN <<>>
        ELSE Get(T, xs[i], FieldOf(T.qtype[xs[i]], name))])

\* fa.ComponentExchange.exchange_items
ComponentExchange_exchange_items_convoyed(T, o) ==
    Get(T, o, AbstractInformationFlow_convoyed_informations)
ComponentExchange_exchange_items(T, o) ==
    Get(T, o, AbstractInformationFlow_convoyed_informations)
        \o Map(T, Get(T, o, ComponentExchange_allocated_functional_exchanges),
               "exchanged_items")

\* cs.BlockArchitecture: the all_* properties
\* Class.properties: owned_properties, then the properties of super if
\* there is one.
Class_properties_own(T, c) == Get(T, c, Class_owned_properties)

RECURSIVE Class_properties(_, _)
Class_properties(T, c) ==
    IF Get(T, c, GeneralizableElement_super) # <<>>
    THEN Get(T, c, Class_owned_properties)
             \o Class_properties(T, Get(T, c, GeneralizableElement_super)[1])
    ELSE Get(T, c, Class_owned_properties)

\* Enumeration.literals: owned_literals, then the literals of super if that
\* is an Enumeration.
RECURSIVE Enumeration_literals(_, _)
Enumeration_literals(T, e) ==
    IF /\ Get(T, e, GeneralizableElement_super) # <<>>
       /\ IsA(T.qtype[Get(T, e, GeneralizableElement_super)[1]],
              T_Enumeration)
    THEN Get(T, e, Enumeration_owned_literals)
             \o Enumeration_literals(T,
                    Get(T, e, GeneralizableElement_super)[1])
    ELSE Get(T, e, Enumeration_owned_literals)

\* dict.fromkeys(xs): each member once, where it first occurs.
FirstOccurrences(xs) ==
    LET keep == {i \in 1..Len(xs) : \A j \in 1..(i - 1) : xs[j] # xs[i]}
        nth(k) == CHOOSE i \in keep :
                      Cardinality({j \in keep : j <= i}) = k
    IN [k \in 1..Cardinality(keep) |-> xs[nth(k)]]

\* PhysicalComponent.deployed_components
PhysicalComponent_deployed_components(T, c) ==
    Map(T, Map(T, Map(T, Get(T, c, Component_representing_parts),
                      "deployment_links"),
               "deployed_element"),
        "type")

\* PhysicalComponent.related_components
PhysicalComponent_related_components_all(T, c) ==
    PhysicalComponent_deployed_components(T, c)
        \o Get(T, c, PhysicalComponent_owned_components)

PhysicalComponent_related_components(T, c) ==
    FirstOccurrences(PhysicalComponent_deployed_components(T, c)
                         \o Get(T, c, PhysicalComponent_owned_components))

\* ElementList.by_is_actor(b): the members whose is_actor reads b.
by_is_actor(T, xs, b) == SelectSeq(xs, LAMBDA c : T.actor[c] = b)

\* The components and the actors each architecture layer lists.
OperationalAnalysis_all_entities(T, o) == Search(T, T_Entity, o)
OperationalAnalysis_all_actors(T, o) ==
    by_is_actor(T, Search(T, T_Entity, Root), TRUE)
SystemAnalysis_all_components(T, o) == Search(T, T_SystemComponent, o)
SystemAnalysis_all_actors(T, o) ==
    by_is_actor(T, SystemAnalysis_all_components(T, o), TRUE)
LogicalArchitecture_all_components(T, o) == Search(T, T_LogicalComponent, o)
LogicalArchitecture_all_actors(T, o) ==
    by_is_actor(T, Search(T, T_LogicalComponent, Root), TRUE)
PhysicalArchitecture_all_components(T, o) ==
    Search(T, T_PhysicalComponent, o)
PhysicalArchitecture_all_actors(T, o) ==
    by_is_actor(T, Search(T, T_PhysicalComponent, Root), TRUE)

\* Every node an all_* property of architecture o returns.
AllResults(T, o) ==
    CASE T.qtype[o] = T_OperationalAnalysis ->
             SeqToSet(OperationalAnalysis_all_entities(T, o))
                 \cup SeqToSet(OperationalAnalysis_all_actors(T, o))
      [] T.qtype[o] = T_SystemAnalysis ->
             SeqToSet(SystemAnalysis_all_components(T, o))
                 \cup SeqToSet(SystemAnalysis_all_actors(T, o))
      [] T.qtype[o] = T_LogicalArchitecture ->
             SeqToSet(LogicalArchitecture_all_components(T, o))
                 \cup SeqToSet(LogicalArchitecture_all_actors(T, o))
      [] T.qtype[o] = T_PhysicalArchitecture ->
             SeqToSet(PhysicalArchitecture_all_components(T, o))
                 \cup SeqToSet(PhysicalArchitecture_all_actors(T, o))
      [] OTHER -> {}

BlockArchitecture_all_classes(T, o) == Search(T, T_Class, o)
BlockArchitecture_all_unions_classes(T, o) == Search(T, T_Class, o)
BlockArchitecture_all_unions(T, o) == Search(T, T_Union, o)
BlockArchitecture_all_interfaces(T, o) == Search(T, T_Interface, o)

-----------------------------------------------------------------------------
(* Writing a relation                                                       *)

\* Where an append without position goes: after the last matching child.
InsertPos_front(T, o, tag) == 1
InsertPos(T, o, tag) ==
    LET idx == {i \in 1..Len(T.kids[o]) : T.tag[T.kids[o][i]] = tag} IN
    IF idx = {} THEN Len(T.kids[o]) + 1
    ELSE (CHOOSE i \in idx : \A j \in idx : j <= i) + 1

\* A further member would break the Single or fixed-length bound.
AtCapacity(T, o, rel) ==
    \/ rel.single /\ Len(Get(T, o, rel)) >= 1
    \/ rel.fixed > 0 /\ Len(Get(T, o, rel)) >= rel.fixed

ContainmentAppend(T, o, rel, q) ==
    CreateNode(T, o, InsertPos(T, o, rel.tag), rel.tag, q)

AssociationAppend(T, o, rel, x) ==
    SetRefs(T, o, rel.attr, Append(T.refs[o][rel.attr], x))

AssociationSet(T, o, rel, xs) == SetRefs(T, o, rel.attr, xs)

\* The link node, its target attribute, and its back attribute if declared.
AllocationAppend(T, o, rel, x) ==
    LET l  == T.next
        T1 == CreateNode(T, o, InsertPos(T, o, rel.tag), rel.tag, rel.link)
        T2 == IF rel.backattr # "" THEN SetRefs(T1, l, rel.backattr, <<o>>)
              ELSE T1
    IN SetRefs(T2, l, rel.attr, <<x>>)

\* The first owned link node, whatever it refers to.
LinkFor_first_link(T, o, rel, x) ==
    IF ContainmentGet(T, o, rel) = <<>> THEN NoNode
    ELSE ContainmentGet(T, o, rel)[1]

\* The first owned link node whose target reference is x (NoNode: none).
LinkFor(T, o, rel, x) ==
    LET links == ContainmentGet(T, o, rel)
        hits  == {i \in 1..Len(links) :
                     x \in SeqToSet(T.refs[links[i]][rel.attr])}
    IN IF hits = {} THEN NoNode
       ELSE links[CHOOSE i \in hits : \A j \in hits : i <= j]

-----------------------------------------------------------------------------
(* Identity Map                                                             *)

NoWrapper == <<0, 0>>

EmptyMap == [entry |-> [n \in Nodes |-> 0], live |-> {}]

\* The live wrappers that represent node n.
WrappersOf(I, n) == {w \in I.live : w[1] = n}

\* Construct a wrapper for n (a new object, distinct from every live
\* wrapper of n) and store it as n's entry.
NewWrapper(I, n) ==
    LET k == Cardinality(WrappersOf(I, n)) + 1 IN
    [entry |-> [I.entry EXCEPT ![n] = k],
     live  |-> I.live \cup {<<n, k>>}]

\* get_or_create(node): the map afterwards.
GetOrCreate_always_new(I, n) == NewWrapper(I, n)
GetOrCreate(I, n) == IF I.entry[n] # 0 THEN I ELSE NewWrapper(I, n)

WrapperOf(I, n) == <<n, I.entry[n]>>

\* invalidate(node): drop the entries and wrappers of the nodes in S.
Invalidate(I, S) ==
    [I EXCEPT !.entry = [n \in Nodes |-> IF n \in S THEN 0 ELSE I.entry[n]],
              !.live = {w \in I.live : w[1] \notin S}]

\* What a detach of c invalidates: c's whole subtree.
Invalidated_only_node(T, c) == {c}
Invalidated(T, c) == Subtree(T, c)

\* resolve(namespace, tag, modelVersion): registered and within the range.
Resolvable(q, v) ==
    /\ q \in Registered
    /\ \E ns \in Namespaces : ns.name = q[1] /\ VersionLE(ns.minver, v)

-----------------------------------------------------------------------------
(* Binding operations                                                       *)

Outcome(name, node, field, arg, err, ret) ==
    [name |-> name, node |-> node, field |-> field, arg |-> arg,
     err |-> err, ret |-> ret, gone |-> {}, warn |-> FALSE,
     flag |-> FALSE]

\* The outcome of a removal, with the nodes that left the document.
Removed(o, f, x, gone) ==
    [Outcome("remove", o, f, x, "ok", NoWrapper) EXCEPT !.gone = gone]

NoOp == Outcome("load", NoNode, "", NoNode, "ok", NoWrapper)

\* o is a live object of the class that declares f.
Holds(o, f) == InTree(tree, o) /\ IsA(tree.qtype[o], Owner(f))

\* x may become a member of f: a live object of the target class.
Fits(x, f) == InTree(tree, x) /\ IsA(tree.qtype[x], Decl(f).cls)

\* Containment append(owner, spec): create the child, hand out its wrapper.
ContAppend(o, f, q) ==
    /\ Holds(o, f)
    /\ Decl(f).kind = "Containment"
    /\ IsA(q, Decl(f).cls)
    /\ IF AtCapacity(tree, o, Decl(f))
       THEN /\ op' = Outcome("append", o, f, NoNode, "CardinalityError",
                             NoWrapper)
            /\ UNCHANGED <<tree, idmap>>
       ELSE /\ tree.next <= tree.cap
            /\ tree' = ContainmentAppend(tree, o, Decl(f), q)
            /\ idmap' = NewWrapper(idmap, tree.next)
            /\ op' = Outcome("append", o, f, tree.next, "ok",
                             WrapperOf(idmap', tree.next))
    /\ UNCHANGED version

\* Containment remove(owner, child): detach, cascade the invalidation.
ContRemove(o, f, c) ==
    /\ Holds(o, f)
    /\ Decl(f).kind = "Containment"
    /\ c \in SeqToSet(ContainmentGet(tree, o, Decl(f)))
    /\ tree' = Detach(tree, o, c)
    /\ idmap' = Invalidate(idmap, Invalidated(tree, c))
    /\ op' = Removed(o, f, c, Subtree(tree, c))
    /\ UNCHANGED version

\* Association append(owner, target): store one more reference.
AssocAppend(o, f, x) ==
    /\ Holds(o, f)
    /\ Decl(f).kind = "Association"
    /\ Fits(x, f)
    /\ IF AtCapacity(tree, o, Decl(f))
       THEN /\ op' = Outcome("append", o, f, x, "CardinalityError", NoWrapper)
            /\ UNCHANGED <<tree, idmap>>
       ELSE /\ tree' = AssociationAppend(tree, o, Decl(f), x)
            /\ idmap' = GetOrCreate(idmap, x)
            /\ op' = Outcome("append", o, f, x, "ok", WrapperOf(idmap', x))
    /\ UNCHANGED version

\* Association remove(owner, target): drop the first reference to x.
AssocRemove(o, f, x) ==
    /\ Holds(o, f)
    /\ Decl(f).kind = "Association"
    /\ x \in SeqToSet(tree.refs[o][Decl(f).attr])
    /\ tree' = AssociationSet(tree, o, Decl(f),
                   RemoveAt(tree.refs[o][Decl(f).attr],
                            IndexOf(tree.refs[o][Decl(f).attr], x)))
    /\ op' = Outcome("remove", o, f, x, "ok", NoWrapper)
    /\ UNCHANGED <<idmap, version>>

\* Writing a Single association: the value replaces the member, if any.
AssocWrite(o, f, x) ==
    /\ Holds(o, f)
    /\ Decl(f).kind = "Association"
    /\ Decl(f).single
    /\ Fits(x, f)
    /\ tree' = AssociationSet(tree, o, Decl(f), <<x>>)
    /\ op' = Outcome("write", o, f, x, "ok", NoWrapper)
    /\ UNCHANGED <<idmap, version>>

\* Writing a Single containment: the new child replaces the member, if any,
\* which leaves the document with all it contains.
ContWrite(o, f, q) ==
    /\ Holds(o, f)
    /\ Decl(f).kind = "Containment"
    /\ Decl(f).single
    /\ IsA(q, Decl(f).cls)
    /\ tree.next <= tree.cap
    /\ LET old  == ContainmentGet(tree, o, Decl(f))
           gone == IF old = <<>> THEN {} ELSE Invalidated(tree, old[1])
           T1   == IF old = <<>> THEN tree ELSE Detach(tree, o, old[1])
       IN /\ tree' = ContainmentAppend(T1, o, Decl(f), q)
          /\ idmap' = NewWrapper(Invalidate(idmap, gone), tree.next)
          /\ op' = [Outcome("write", o, f, tree.next, "ok",
                            WrapperOf(idmap', tree.next))
                       EXCEPT !.gone = gone]
    /\ UNCHANGED version

\* Allocation append(owner, target): one link node under owner.
AllocAppend(o, f, x) ==
    /\ Holds(o, f)
    /\ Decl(f).kind = "Allocation"
    /\ Fits(x, f)
    /\ IF AtCapacity(tree, o, Decl(f))
       THEN /\ op' = Outcome("append", o, f, x, "CardinalityError",
                             NoWrapper)
            /\ UNCHANGED <<tree, idmap>>
       ELSE /\ tree.next <= tree.cap
            /\ tree' = AllocationAppend(tree, o, Decl(f), x)
            /\ idmap' = GetOrCreate(idmap, x)
            /\ op' = Outcome("append", o, f, x, "ok", WrapperOf(idmap', x))
    /\ UNCHANGED version

\* Allocation remove(owner, target): remove the link node, never target.
AllocRemove(o, f, x) ==
    /\ Holds(o, f)
    /\ Decl(f).kind = "Allocation"
    /\ x \in Nodes
    /\ LinkFor(tree, o, Decl(f), x) # NoNode
    /\ tree' = Detach(tree, o, LinkFor(tree, o, Decl(f), x))
    /\ idmap' = Invalidate(idmap,
                    Invalidated(tree, LinkFor(tree, o, Decl(f), x)))
    /\ op' = Removed(o, f, x, {LinkFor(tree, o, Decl(f), x)})
    /\ UNCHANGED version

\* resolve(node): the node's wrapper through the Identity Map.
Resolve(n) ==
    /\ InTree(tree, n)
    /\ Cardinality(WrappersOf(idmap, n)) < MaxWrappers
    /\ IF Resolvable(tree.qtype[n], version)
       THEN /\ idmap' = GetOrCreate(idmap, n)
            /\ op' = Outcome("resolve", n, "", NoNode, "ok",
                             WrapperOf(idmap', n))
       ELSE /\ op' = Outcome("resolve", n, "", NoNode, "UnknownType",
                             NoWrapper)
            /\ UNCHANGED idmap
    /\ UNCHANGED <<tree, version>>

\* PhysicalLink.source and PhysicalLink.target: ends[0] and ends[1], None
\* (NoNode) where ends is too short.
PhysicalLink_source(T, o) ==
    IF Len(Get(T, o, PhysicalLink_ends)) >= 1
    THEN Get(T, o, PhysicalLink_ends)[1] ELSE NoNode

PhysicalLink_target_last(T, o) ==
    IF Len(Get(T, o, PhysicalLink_ends)) >= 1
    THEN Get(T, o, PhysicalLink_ends)[Len(Get(T, o, PhysicalLink_ends))]
    ELSE NoNode

PhysicalLink_target(T, o) ==
    IF Len(Get(T, o, PhysicalLink_ends)) >= 2
    THEN Get(T, o, PhysicalLink_ends)[2] ELSE NoNode

\* The source setter past its None check: append to empty ends, else
\* ends[0] = end.
SourceEnds_always_append(ends, end) == Append(ends, end)

SourceEnds(ends, end) ==
    IF Len(ends) = 0 THEN Append(ends, end) ELSE [ends EXCEPT ![1] = end]

\* The target setter past its checks: append to one end, else ends[1] = end.
TargetEnds_always_append(ends, end) == Append(ends, end)

TargetEnds(ends, end) ==
    IF Len(ends) = 1 THEN Append(ends, end) ELSE [ends EXCEPT ![2] = end]

\* component.is_actor = b
SetActor(o, b) ==
    /\ InTree(tree, o)
    /\ IsA(tree.qtype[o], T_Component)
    /\ tree' = [tree EXCEPT !.actor[o] = b]
    /\ op' = [Outcome("write", o, "is_actor", NoNode, "ok", NoWrapper)
                 EXCEPT !.flag = b]
    /\ UNCHANGED <<idmap, version>>

\* link.source = end
SetSource(o, end) ==
    /\ InTree(tree, o)
    /\ IsA(tree.qtype[o], T_PhysicalLink)
    /\ end = NoNode \/ Fits(end, "PhysicalLink.ends")
    /\ IF end = NoNode
       THEN /\ op' = Outcome("set_source", o, "PhysicalLink.ends", end,
                             "TypeError", NoWrapper)
            /\ UNCHANGED tree
       ELSE /\ tree' = SetRefs(tree, o, PhysicalLink_ends.attr,
                               SourceEnds(tree.refs[o][PhysicalLink_ends.attr],
                                          end))
            /\ op' = Outcome("set_source", o, "PhysicalLink.ends", end, "ok",
                             NoWrapper)
    /\ UNCHANGED <<idmap, version>>

\* link.target = end
SetTarget(o, end) ==
    /\ InTree(tree, o)
    /\ IsA(tree.qtype[o], T_PhysicalLink)
    /\ end = NoNode \/ Fits(end, "PhysicalLink.ends")
    /\ IF end = NoNode \/ Len(Get(tree, o, PhysicalLink_ends)) = 0
       THEN /\ op' = Outcome("set_target", o, "PhysicalLink.ends", end,
                             "TypeError", NoWrapper)
            /\ UNCHANGED tree
       ELSE /\ tree' = SetRefs(tree, o, PhysicalLink_ends.attr,
                               TargetEnds(tree.refs[o][PhysicalLink_ends.attr],
                                          end))
            /\ op' = Outcome("set_target", o, "PhysicalLink.ends", end, "ok",
                             NoWrapper)
    /\ UNCHANGED <<idmap, version>>

\* The Containment a create through a field lands in: a Filter, an Alias
\* and a DeprecatedAccessor hand the create to the field they name.
RECURSIVE Underlying(_, _)
Underlying(q, rel) ==
    IF rel.kind \in {"Alias", "Deprecated", "Filter"}
    THEN Underlying(q, FieldOf(q, rel.paths[1][1]))
    ELSE rel

\* The Part always goes under the new component itself.
Component___init___own_part(T, c, create_part) ==
    LET rel == Underlying(T.qtype[c], FieldOf(T.qtype[c], "owned_parts"))
        p   == T.next
        T1  == CreateNode(T, c, InsertPos(T, c, rel.tag), rel.tag, T_Part)
    IN IF create_part
       THEN [SetRefs(T1, p, "abstractType", <<c>>)
                EXCEPT !.name[p] = T.name[c]]
       ELSE T

\* Component.__init__ after the base constructor made node c: with
\* create_part, owned_parts.create(name=self.name, type=self) on the parent
\* when that is a Component or a ComponentPkg, else on c itself.
Component___init__(T, c, create_part) ==
    LET o   == T.parent[c]
        h   == IF \/ IsA(T.qtype[o], T_Component)
                  \/ IsA(T.qtype[o], T_ComponentPkg)
               THEN o ELSE c
        rel == Underlying(T.qtype[h], FieldOf(T.qtype[h], "owned_parts"))
        p   == T.next
        T1  == CreateNode(T, h, InsertPos(T, h, rel.tag), rel.tag, T_Part)
    IN IF create_part
       THEN [SetRefs(T1, p, "abstractType", <<c>>)
                EXCEPT !.name[p] = T.name[c]]
       ELSE T

\* relation.create(name=nm, create_part=...) for a Component class q: the
\* constructor is handed the relation's tag and does not pass it on, so
\* the new node carries the tag its class declares; a class that declares
\* none cannot be instantiated.
CreateComponent(o, f, q, nm, create_part) ==
    /\ Holds(o, f)
    /\ Decl(f).kind = "Containment"
    /\ IsA(q, Decl(f).cls)
    /\ IsA(q, T_Component)
    /\ IF XmlTag(q) = ""
       THEN /\ op' = [Outcome("create", o, f, NoNode, "TypeError", NoWrapper)
                         EXCEPT !.flag = create_part]
            /\ UNCHANGED <<tree, idmap>>
       ELSE /\ tree.next + (IF create_part THEN 1 ELSE 0) <= tree.cap
            /\ tree' = Component___init__(
                           [CreateNode(tree, o, InsertPos(tree, o, XmlTag(q)),
                                       XmlTag(q), q)
                               EXCEPT !.name[tree.next] = nm],
                           tree.next, create_part)
            /\ idmap' = NewWrapper(idmap, tree.next)
            /\ op' = [Outcome("create", o, f, tree.next, "ok",
                              WrapperOf(idmap', tree.next))
                         EXCEPT !.flag = create_part]
    /\ UNCHANGED version

\* Append through an Alias: the append of the relation the alias names.
AliasAppend(o, f, q) ==
    /\ Holds(o, f)
    /\ Decl(f).kind = "Alias"
    /\ LET rel == Resolved(tree.qtype[o], Decl(f)) IN
       /\ rel.kind = "Containment"
       /\ IsA(q, rel.cls)
       /\ IF AtCapacity(tree, o, rel)
          THEN /\ op' = Outcome("append", o, f, NoNode, "CardinalityError",
                                NoWrapper)
               /\ UNCHANGED <<tree, idmap>>
          ELSE /\ tree.next <= tree.cap
               /\ tree' = ContainmentAppend(tree, o, rel, q)
               /\ idmap' = NewWrapper(idmap, tree.next)
               /\ op' = Outcome("append", o, f, tree.next, "ok",
                                WrapperOf(idmap', tree.next))
    /\ UNCHANGED version

\* Read a field by its deprecated name: a warning, and the Collection of
\* the field it stands for.
DeprecatedRead(o, f) ==
    /\ Holds(o, f)
    /\ Decl(f).kind = "Deprecated"
    /\ op' = [Outcome("read", o, f, NoNode, "ok", NoWrapper)
                 EXCEPT !.warn = TRUE]
    /\ UNCHANGED <<tree, idmap, version>>

\* Read a Single relation and dereference its member.
Deref(o, f) ==
    /\ Holds(o, f)
    /\ Resolved(tree.qtype[o], Decl(f)).single
    /\ LET ms == Get(tree, o, Decl(f)) IN
       IF ms = <<>>
       THEN /\ op' = Outcome("deref", o, f, NoNode, "ok", NoWrapper)
            /\ UNCHANGED idmap
       ELSE IF Len(ms) > 1
       THEN /\ op' = Outcome("deref", o, f, NoNode, "AmbiguityError",
                             NoWrapper)
            /\ UNCHANGED idmap
       ELSE IF ms[1] = Dangling
       THEN /\ op' = Outcome("deref", o, f, NoNode,
                             "DanglingReferenceError", NoWrapper)
            /\ UNCHANGED idmap
       ELSE /\ Cardinality(WrappersOf(idmap, ms[1])) < MaxWrappers
            /\ idmap' = GetOrCreate(idmap, ms[1])
            /\ op' = Outcome("deref", o, f, ms[1], "ok",
                             WrapperOf(idmap', ms[1]))
    /\ UNCHANGED <<tree, version>>

-----------------------------------------------------------------------------
(* A state machine: one region, its states and transitions                  *)

InitSM ==
    /\ tree = RootOnly("ownedRegions", T_Region, SMNodes)
    /\ idmap = EmptyMap
    /\ version = V700
    /\ op = NoOp

NextSM ==
    \/ \E o \in Nodes : ContAppend(o, "Region.states", T_State)
    \/ \E o \in Nodes : ContAppend(o, "Region.transitions", T_StateTransition)
    \/ \E o, c \in Nodes : ContRemove(o, "Region.states", c)
    \/ \E o, c \in Nodes : ContRemove(o, "Region.transitions", c)
    \/ \E o, x \in Nodes : AssocWrite(o, "StateTransition.source", x)
    \/ \E o, x \in Nodes : AssocWrite(o, "StateTransition.target", x)
    \/ \E o, x \in Nodes : AllocAppend(o, "AbstractState.realized_states", x)
    \/ \E o, x \in Nodes : AllocRemove(o, "AbstractState.realized_states", x)
    \/ \E o \in Nodes : Deref(o, "StateTransition.target")

SpecSM == InitSM /\ [][NextSM]_vars

-----------------------------------------------------------------------------
(* A function tree: nested functions and their realizations                 *)

InitFn ==
    /\ tree = RootOnly("ownedFunctions", T_LogicalFunction, FnNodes)
    /\ idmap = EmptyMap
    /\ version = V700
    /\ op = NoOp

NextFn ==
    \/ \E o \in Nodes :
           ContAppend(o, "AbstractFunction.functions", T_LogicalFunction)
    \/ \E o, c \in Nodes : ContRemove(o, "AbstractFunction.functions", c)
    \/ \E o, x \in Nodes :
           AllocAppend(o, "AbstractFunction.realized_functions", x)
    \/ \E o, x \in Nodes :
           AllocRemove(o, "AbstractFunction.realized_functions", x)
    \/ \E n \in Nodes : Resolve(n)

SpecFn == InitFn /\ [][NextFn]_vars

-----------------------------------------------------------------------------
(* A component with an interface package: interface allocations and uses    *)

InitCS ==
    /\ tree = LoadFrom(
                  RootOnly("ownedLogicalComponents", T_LogicalComponent,
                           CSNodes),
                  << <<Root, Block_interface_pkg.tag, T_InterfacePkg>>,
                     <<2, InterfacePkg_interfaces.tag, T_Interface>>,
                     <<2, InterfacePkg_interfaces.tag, T_Interface>> >>)
    /\ idmap = EmptyMap
    /\ version = V700
    /\ op = NoOp

NextCS ==
    \/ \E o, x \in Nodes :
           AllocAppend(o, "InterfaceAllocator.allocated_interfaces", x)
    \/ \E o, x \in Nodes :
           AllocRemove(o, "InterfaceAllocator.allocated_interfaces", x)
    \/ \E o, x \in Nodes : AllocAppend(o, "Component.used_interfaces", x)
    \/ \E o, x \in Nodes : AllocRemove(o, "Component.used_interfaces", x)
    \/ \E o, x \in Nodes :
           AllocAppend(o, "Component.implemented_interfaces", x)
    \/ \E o, c \in Nodes : ContRemove(o, "InterfacePkg.interfaces", c)

SpecCS == InitCS /\ [][NextCS]_vars

-----------------------------------------------------------------------------
(* A physical link with a boolean type and a constraint: bounded relations  *)

InitCard ==
    /\ tree = LoadFrom(
                  RootOnly("ownedPhysicalLinks", T_PhysicalLink, CardNodes),
                  << <<Root, ModelElement_extensions.tag, T_BooleanType>>,
                     <<Root, ModelElement_constraints.tag, T_Constraint>> >>)
    /\ idmap = EmptyMap
    /\ version = V700
    /\ op = NoOp

NextCard ==
    \/ \E o \in Nodes :
           ContAppend(o, "PhysicalLink.physical_link_ends", T_PhysicalLinkEnd)
    \/ \E o, x \in Nodes : AssocAppend(o, "PhysicalLink.ends", x)
    \/ \E o, x \in Nodes : AssocRemove(o, "PhysicalLink.ends", x)
    \/ \E o \in Nodes :
           ContAppend(o, "BooleanType.literals", T_LiteralBooleanValue)
    \/ \E o, c \in Nodes : ContRemove(o, "BooleanType.literals", c)
    \/ \E o \in Nodes :
           ContAppend(o, "AbstractConstraint.specification",
                      T_LiteralBooleanValue)
    \/ \E o, c \in Nodes :
           ContRemove(o, "AbstractConstraint.specification", c)

SpecCard == InitCard /\ [][NextCard]_vars

-----------------------------------------------------------------------------
(* Documents of several versions with nodes of registered and foreign types *)

\* The (namespace, tag) pairs found on the nodes of the loaded documents.
LoadedTypes ==
    {T_State, T_Mode, <<"CS", "State">>, <<"CAPELLACOMMON", "Interface">>,
     T_Interface}

InitNS ==
    /\ \E q1, q2 \in LoadedTypes :
           tree = LoadFrom(RootOnly("ownedRegions", T_Region, NSNodes),
                           << <<Root, Region_states.tag, q1>>,
                              <<Root, Region_states.tag, q2>> >>)
    /\ idmap = EmptyMap
    /\ version \in {V600, V700, V710}
    /\ op = NoOp

NextNS ==
    \/ \E n \in Nodes : Resolve(n)
    \/ \E o, c \in Nodes : ContRemove(o, "Region.states", c)

SpecNS == InitNS /\ [][NextNS]_vars

-----------------------------------------------------------------------------
(* Views and exchanges: a component package, a class, component exchanges   *)

FeatureTypes == {T_ComponentPort, T_PhysicalPort}

\* A component package with one component that owns a port and a part.
PkgDocument ==
    LoadFrom(RootOnly("ownedLogicalComponentPkg", T_LogicalComponentPkg,
                      ViewNodes),
             << <<Root, LogicalComponentPkg_components.tag,
                  T_LogicalComponent>>,
                <<2, Classifier_owned_features.tag, T_ComponentPort>>,
                <<2, Classifier_owned_features.tag, T_Part>> >>)

\* A data package with a union and a class that has an operation.
DataDocument ==
    LoadFrom(RootOnly("ownedDataPkgs", T_DataPkg, ViewNodes),
             << <<Root, DataPkg_classes.tag, T_Union>>,
                <<Root, DataPkg_classes.tag, T_Class>>,
                <<3, Classifier_owned_features.tag, T_Service>> >>)

\* Two component exchanges, a functional exchange and an exchange item.
ExchangeDocument ==
    LoadFrom(RootOnly("ownedComponentExchanges", T_ComponentExchange,
                      ViewNodes),
             << <<Root, ModelElement_extensions.tag, T_ComponentExchange>>,
                <<Root, ModelElement_extensions.tag, T_FunctionalExchange>>,
                <<Root, ModelElement_extensions.tag, T_ExchangeItem>> >>)

InitView ==
    /\ tree \in {PkgDocument, DataDocument, ExchangeDocument}
    /\ idmap = EmptyMap
    /\ version = V700
    /\ op = NoOp

NextView ==
    \/ \E o \in Nodes : ContAppend(o, "ComponentPkg.parts", T_Part)
    \/ \E o \in Nodes : AliasAppend(o, "ComponentPkg.owned_parts", T_Part)
    \/ \E o, c \in Nodes : ContRemove(o, "ComponentPkg.parts", c)
    \/ \E o \in Nodes, q \in FeatureTypes :
           ContAppend(o, "Classifier.owned_features", q)
    \/ \E o \in Nodes, q \in {T_Class, T_Union} :
           ContAppend(o, "DataPkg.classes", q)
    \/ \E o, c \in Nodes : ContRemove(o, "DataPkg.classes", c)
    \/ \E o, c \in Nodes : ContRemove(o, "Classifier.owned_features", c)
    \/ \E o, x \in Nodes :
           AllocAppend(o, "ComponentExchange.allocated_functional_exchanges",
                       x)
    \/ \E o, x \in Nodes :
           AllocRemove(o, "ComponentExchange.allocated_functional_exchanges",
                       x)
    \/ \E o \in Nodes : Deref(o, "FunctionalExchange.owner")
    \/ \E o \in Nodes :
           Deref(o, "FunctionalExchange.allocating_component_exchange")

SpecView == InitView /\ [][NextView]_vars

-----------------------------------------------------------------------------
(* Exchanges: what component exchanges and functional exchanges carry       *)

InitEx ==
    /\ tree = ExchangeDocument
    /\ idmap = EmptyMap
    /\ version = V700
    /\ op = NoOp

NextEx ==
    \/ \E o, x \in Nodes :
           AllocAppend(o, "ComponentExchange.allocated_functional_exchanges",
                       x)
    \/ \E o, x \in Nodes :
           /\ Len(tree.refs[o]["convoyedInformations"]) < MaxRefs
           /\ AssocAppend(o, "AbstractInformationFlow.convoyed_informations",
                          x)
    \/ \E o, x \in Nodes :
           /\ Len(tree.refs[o]["exchangedItems"]) < MaxRefs
           /\ AssocAppend(o, "FunctionalExchange.exchanged_items", x)
    \/ \E o, x \in Nodes :
           AssocRemove(o, "FunctionalExchange.exchanged_items", x)

SpecEx == InitEx /\ [][NextEx]_vars

-----------------------------------------------------------------------------
(* An architecture: its Single packages and what they hold                  *)

InitArch ==
    /\ tree = LoadFrom(
                  RootOnly("ownedArchitectures", T_LogicalArchitecture,
                           ArchNodes),
                  << <<Root, BlockArchitecture_data_pkg.tag, T_DataPkg>>,
                     <<2, DataPkg_classes.tag, T_Class>>,
                     <<Root, BlockArchitecture_interface_pkg.tag,
                       T_InterfacePkg>> >>)
    /\ idmap = EmptyMap
    /\ version = V700
    /\ op = NoOp

NextArch ==
    \/ \E o \in Nodes : ContWrite(o, "BlockArchitecture.data_pkg", T_DataPkg)
    \/ \E o \in Nodes :
           ContWrite(o, "BlockArchitecture.interface_pkg", T_InterfacePkg)
    \/ \E o \in Nodes : ContAppend(o, "BlockArchitecture.data_pkg", T_DataPkg)
    \/ \E o, c \in Nodes : ContRemove(o, "BlockArchitecture.data_pkg", c)
    \/ \E o \in Nodes : ContAppend(o, "DataPkg.packages", T_DataPkg)
    \/ \E o \in Nodes, q \in {T_Class, T_Union} :
           ContAppend(o, "DataPkg.classes", q)
    \/ \E o, c \in Nodes : ContRemove(o, "DataPkg.classes", c)
    \/ \E o \in Nodes : ContAppend(o, "InterfacePkg.interfaces", T_Interface)

SpecArch == InitArch /\ [][NextArch]_vars

-----------------------------------------------------------------------------
(* Compatibility names: a region with a mode, a state and an event          *)

InitCompat ==
    /\ tree = LoadFrom(
                  RootOnly("ownedRegions", T_Region, CompatNodes),
                  << <<Root, Region_states.tag, T_Mode>>,
                     <<Root, Region_states.tag, T_State>>,
                     <<Root, ModelElement_extensions.tag,
                       T_FunctionalExchange>> >>)
    /\ idmap = EmptyMap
    /\ version = V700
    /\ op = NoOp

NextCompat ==
    \/ \E o \in Nodes, q \in {T_State, T_Mode} :
           ContAppend(o, "Region.states", q)
    \/ \E o, x \in Nodes :
           /\ Len(tree.refs[o]["entry"]) < MaxRefs
           /\ AssocAppend(o, "State.entry", x)
    \/ \E o \in Nodes : DeprecatedRead(o, "State.entries")
    \/ \E o \in Nodes : DeprecatedRead(o, "Region.modes")

SpecCompat == InitCompat /\ [][NextCompat]_vars

-----------------------------------------------------------------------------
(* Properties                                                               *)

Attached == {n \in Nodes : InTree(tree, n)}

ContainmentFields == {f \in Fields : Decl(f).kind = "Containment"}

\* C3 (backref consistency, I4): in every reachable state and for all live
\* objects a, b: b is in a.incoming_transitions iff b is a transition whose
\* target is a; b is in a.outgoing_transitions iff b is a transition whose
\* source is a; b is in a.realizing_states iff a is in b.realized_states.
\* The backrefs are read from the state as it is, so a read directly after
\* a forward write is covered.
C3_BackrefConsistency ==
    \A a \in Attached :
        IsA(tree.qtype[a], T_AbstractState) =>
            LET incoming == SeqToSet(Get(tree, a,
                                Decl("AbstractState.incoming_transitions")))
                outgoing == SeqToSet(Get(tree, a,
                                Decl("AbstractState.outgoing_transitions")))
                realizing == SeqToSet(Get(tree, a,
                                 Decl("AbstractState.realizing_states")))
            IN \A b \in Attached :
                /\ b \in incoming
                   <=> /\ IsA(tree.qtype[b], T_StateTransition)
                       /\ a \in SeqToSet(AssociationGet(tree, b,
                                              StateTransition_target))
                /\ b \in outgoing
                   <=> /\ IsA(tree.qtype[b], T_StateTransition)
                       /\ a \in SeqToSet(AssociationGet(tree, b,
                                              StateTransition_source))
                /\ b \in realizing
                   <=> /\ IsA(tree.qtype[b], T_AbstractState)
                       /\ a \in SeqToSet(AllocationGet(tree, b,
                                              AbstractState_realized_states))

\* A transition's target was just written and the target's
\* incoming_transitions already lists the transition, while another state
\* is realized by the target.
C3_Witness ==
    /\ op.name = "write"
    /\ op.field = "StateTransition.target"
    /\ op.node \in SeqToSet(Get(tree, op.arg,
                                Decl("AbstractState.incoming_transitions")))
    /\ \E b \in Attached :
           b \in SeqToSet(Get(tree, op.arg,
                              Decl("AbstractState.realizing_states")))

\* C6 (association non-ownership, I3): a dereference of a Single
\* association fails with DanglingReferenceError exactly when the stored
\* reference names a node that is no longer in the tree, and the removal of
\* a contained node leaves every object outside the removed subtree in the
\* tree, with its reference attributes as they were and its wrapper live.
C6_DerefOutcome ==
    op.name = "deref" /\ Decl(op.field).kind = "Association" =>
        LET stored == tree.refs[op.node][Decl(op.field).attr] IN
        /\ InTree(tree, op.node)
        /\ op.err = "DanglingReferenceError"
               <=> (stored # <<>> /\ ~InTree(tree, stored[1]))

C6_RemovalKeepsReferrers ==
    op'.name = "remove" /\ op'.field \in ContainmentFields =>
        \A a \in Attached \ Subtree(tree, op'.arg) :
            /\ InTree(tree', a)
            /\ tree'.refs[a] = tree.refs[a]
            /\ WrappersOf(idmap', a) = WrappersOf(idmap, a)

C6_AssociationNonOwnership ==
    [](C6_DerefOutcome) /\ [][C6_RemovalKeepsReferrers]_vars

\* A transition still in the tree was dereferenced after its target state
\* had been removed.
C6_Witness ==
    /\ op.name = "deref"
    /\ op.field = "StateTransition.target"
    /\ op.err = "DanglingReferenceError"
    /\ InTree(tree, op.node)
    /\ tree.refs[op.node]["target"] # <<>>

\* Every node that some Collection derived from document T can contain:
\* the members of every relation of every attached object, and the results
\* of a search for every class in use below every attached scope.
Visible(T) ==
    LET att == {n \in Nodes : InTree(T, n)} IN
    UNION {UNION ({SeqToSet(Get(T, o, Decl(f))) :
                      f \in {g \in Fields : IsA(T.qtype[o], Owner(g))}}
                  \cup {SeqToSet(Search(T, q, o)) :
                            q \in UNION {{T.qtype[n]} \cup Supers(T.qtype[n]) :
                                         n \in att}}) :
           o \in att}

\* C1 (identity, I1): in every reachable state each backing node has at
\* most one live wrapper, a successful resolution returns a live wrapper of
\* the resolved node, and a wrapper stays the node's wrapper for as long as
\* the node is attached: a later resolution of the node returns that same
\* wrapper.
C1_OneWrapperPerNode ==
    /\ \A n \in Nodes : Cardinality(WrappersOf(idmap, n)) <= 1
    /\ op.name = "resolve" /\ op.err = "ok" =>
           op.ret \in WrappersOf(idmap, op.node)

C1_SameWrapperAgain ==
    \A w \in idmap.live :
        InTree(tree', w[1]) =>
            /\ w \in idmap'.live
            /\ op'.name = "resolve" /\ op'.node = w[1] => op'.ret = w

C1_Identity == []C1_OneWrapperPerNode /\ [][C1_SameWrapperAgain]_vars

\* A function created by an append (which handed out its wrapper) was
\* resolved again after some other node had been removed, and the
\* resolution returned the wrapper from the append.
C1_Witness ==
    /\ op.name = "resolve"
    /\ op.err = "ok"
    /\ op.node # Root
    /\ op.ret = <<op.node, 1>>
    /\ Cardinality(Attached) < tree.next - 1

\* C2 (containment cascade): a Containment remove(owner, child) leaves
\* neither child nor any node transitively contained in it attached, with an
\* Identity Map entry or with a live wrapper; and in every state, so also
\* in the one right after the remove and all later ones, no relation get,
\* backref read or search contains a node that is not attached.
C2_RemoveCascades ==
    op'.name = "remove" /\ op'.field \in ContainmentFields =>
        \A n \in Subtree(tree, op'.arg) :
            /\ idmap'.entry[n] = 0
            /\ WrappersOf(idmap', n) = {}
            /\ ~InTree(tree', n)

C2_NothingDetachedIsSeen ==
    \A n \in Nodes \ Attached :
        /\ idmap.entry[n] = 0
        /\ WrappersOf(idmap, n) = {}
        /\ n \notin Visible(tree)

C2_ContainmentCascade ==
    []C2_NothingDetachedIsSeen /\ [][C2_RemoveCascades]_vars

\* A function that itself contained a function was removed from its
\* owner's functions while other functions stay attached.
C2_Witness ==
    /\ op.name = "remove"
    /\ op.field = "AbstractFunction.functions"
    /\ Cardinality(op.gone) >= 2
    /\ Cardinality(Attached) >= 2

\* C7 (containment order): get(owner) of a Containment relation is the
\* matching children in document order, which is the order of their
\* creation; an append without position adds the new child at the end of
\* the relation and a remove takes out the one member, both leaving the
\* other members and the owner's other Containment relations as they were.
C7_DocumentOrder ==
    \A o \in Attached, f \in ContainmentFields :
        Holds(o, f) =>
            LET g == Get(tree, o, Decl(f)) IN
            /\ g = SelectSeq(DocOrder(tree, o), LAMBDA c :
                       tree.parent[c] = o /\ tree.tag[c] = Decl(f).tag)
            /\ \A i, j \in 1..Len(g) : i < j => g[i] < g[j]

C7_AppendAtEnd ==
    op'.name = "append" /\ op'.err = "ok" /\ op'.field \in ContainmentFields
    => /\ Get(tree', op'.node, Decl(op'.field))
              = Append(Get(tree, op'.node, Decl(op'.field)), op'.arg)
       /\ \A f \in ContainmentFields \ {op'.field} :
              Holds(op'.node, f) /\ Decl(f).tag # Decl(op'.field).tag =>
                  Get(tree', op'.node, Decl(f)) = Get(tree, op'.node, Decl(f))

C7_RemoveKeepsOrder ==
    op'.name = "remove" /\ op'.field \in ContainmentFields
    => /\ Get(tree', op'.node, Decl(op'.field))
              = SelectSeq(Get(tree, op'.node, Decl(op'.field)),
                          LAMBDA m : m # op'.arg)
       /\ \A f \in ContainmentFields \ {op'.field} :
              Holds(op'.node, f) /\ Decl(f).tag # Decl(op'.field).tag =>
                  Get(tree', op'.node, Decl(f)) = Get(tree, op'.node, Decl(f))

C7_ContainmentOrder ==
    []C7_DocumentOrder /\ [][C7_AppendAtEnd /\ C7_RemoveKeepsOrder]_vars

\* Three states were appended to a region and the middle one was removed:
\* the region's states are the first and the third, in that order.
C7_Witness ==
    /\ op.name = "remove"
    /\ op.field = "Region.states"
    /\ op.arg = 3
    /\ Get(tree, Root, Region_states) = <<2, 4>>

AllocationFields == {f \in Fields : Decl(f).kind = "Allocation"}

\* Node n is in both documents with the same tag, type, parent, children
\* and reference attributes.
SameNode(T1, T2, n) ==
    /\ T1.qtype[n] = T2.qtype[n]
    /\ T1.tag[n] = T2.tag[n]
    /\ T1.parent[n] = T2.parent[n]
    /\ T1.kids[n] = T2.kids[n]
    /\ T1.refs[n] = T2.refs[n]

\* The target of an Allocation remove is as it was: attached, resolvable,
\* same wrapper, same attributes and children.
TargetUntouched ==
    InTree(tree, op'.arg) =>
        /\ InTree(tree', op'.arg)
        /\ Resolvable(tree'.qtype[op'.arg], version')
        /\ WrappersOf(idmap', op'.arg) = WrappersOf(idmap, op'.arg)
        /\ SameNode(tree, tree', op'.arg)

\* The nodes a removal took out are exactly one link node of the relation
\* that was a child of the owner and referred to the target.
OneLinkRemoved ==
    \E l \in Nodes :
        /\ op'.gone = {l}
        /\ l \in Attached
        /\ {n \in Nodes : InTree(tree', n)} = Attached \ {l}
        /\ tree.parent[l] = op'.node
        /\ tree.tag[l] = Decl(op'.field).tag
        /\ tree.refs[l][Decl(op'.field).attr] = <<op'.arg>>

\* C4 as stated (allocation round-trip): after an Allocation append the
\* relation contains the target exactly once; an Allocation remove takes
\* out exactly one link node, the target is no longer a member, and the
\* target is attached, resolvable and unchanged.
C4_AsStated_step ==
    /\ op'.name = "append" /\ op'.err = "ok" /\ op'.field \in AllocationFields
       => Count(Get(tree', op'.node, Decl(op'.field)), op'.arg) = 1
    /\ op'.name = "remove" /\ op'.field \in AllocationFields
       => /\ OneLinkRemoved
          /\ op'.arg \notin SeqToSet(Get(tree', op'.node, Decl(op'.field)))
          /\ TargetUntouched

C4_RoundTrip_step ==
    /\ op'.name = "append" /\ op'.err = "ok" /\ op'.field \in AllocationFields
       => Count(Get(tree', op'.node, Decl(op'.field)), op'.arg)
              = Count(Get(tree, op'.node, Decl(op'.field)), op'.arg) + 1
    /\ op'.name = "remove" /\ op'.field \in AllocationFields
       => /\ OneLinkRemoved
          /\ InTree(tree, op'.arg) =>
                 Count(Get(tree', op'.node, Decl(op'.field)), op'.arg)
                    = Count(Get(tree, op'.node, Decl(op'.field)), op'.arg) - 1
          /\ op'.arg # op'.node => TargetUntouched

OneLinkAdded(l) ==
    /\ l \notin Used(tree)
    /\ Used(tree') = Used(tree) \cup {l}
    /\ tree'.tag[l] = Decl(op'.field).tag
    /\ tree'.qtype[l] = Decl(op'.field).link
    /\ tree'.parent[l] = op'.node
    /\ tree'.kids[l] = <<>>
    /\ SelectSeq(tree'.kids[op'.node], LAMBDA c : c # l)
           = tree.kids[op'.node]
    /\ Count(tree'.kids[op'.node], l) = 1
    /\ \A n \in Used(tree) \ {op'.node} : SameNode(tree, tree', n)
    /\ SameNode([tree EXCEPT !.kids = tree'.kids], tree', op'.node)

\* C10 as stated (allocation append shape): the append adds exactly one
\* node tagged L under X, whose two reference attributes point to X and Y,
\* changes nothing else, and X.targets, empty before, is [Y].
C10_AsStated_step ==
    op'.name = "append" /\ op'.err = "ok" /\ op'.field \in AllocationFields
    => \E l \in Nodes :
          /\ OneLinkAdded(l)
          /\ \E a, b \in Attrs :
                /\ a # b
                /\ tree'.refs[l] = [EmptyRefs EXCEPT ![a] = <<op'.node>>,
                                                     ![b] = <<op'.arg>>]
          /\ Get(tree, op'.node, Decl(op'.field)) = <<>> =>
                 Get(tree', op'.node, Decl(op'.field)) = <<op'.arg>>

C10_AppendShape_step ==
    op'.name = "append" /\ op'.err = "ok" /\ op'.field \in AllocationFields
    => \E l \in Nodes :
          /\ OneLinkAdded(l)
          /\ op'.field = "InterfaceAllocator.allocated_interfaces" =>
                 /\ tree'.tag[l] = "ownedInterfaceAllocations"
                 /\ tree'.refs[l] =
                        [EmptyRefs EXCEPT !["sourceElement"] = <<op'.node>>,
                                          !["targetElement"] = <<op'.arg>>]
          /\ op'.field = "Component.used_interfaces" =>
                 /\ tree'.tag[l] = "ownedInterfaceUses"
                 /\ tree'.refs[l] =
                        [EmptyRefs EXCEPT !["usedInterface"] = <<op'.arg>>]
          /\ Get(tree', op'.node, Decl(op'.field))
                 = Append(Get(tree, op'.node, Decl(op'.field)), op'.arg)

C5_AtMostOne ==
    \A o \in Attached :
        IsA(tree.qtype[o], T_AbstractConstraint) =>
            Len(SelectSeq(tree.kids[o],
                          LAMBDA c : tree.tag[c] = "ownedSpecification")) <= 1

C5_SecondAppendFails ==
    op'.name = "append" /\ op'.field = "AbstractConstraint.specification" =>
        LET held == SelectSeq(tree.kids[op'.node],
                        LAMBDA c : tree.tag[c] = "ownedSpecification") IN
        /\ op'.err = "CardinalityError" <=> held # <<>>
        /\ held # <<>> =>
               /\ tree' = tree
               /\ idmap' = idmap
               /\ Get(tree', op'.node, AbstractConstraint_specification)
                      = held

C5_SingletonBound == []C5_AtMostOne /\ [][C5_SecondAppendFails]_vars

\* A second append to the specification of a constraint was rejected and
\* the first specification is still there.
C5_Witness ==
    /\ op.name = "append"
    /\ op.field = "AbstractConstraint.specification"
    /\ op.err = "CardinalityError"
    /\ Len(Get(tree, op.node, AbstractConstraint_specification)) = 1

\* The stored members of the two fixed-length relations of object o.
LinkEnds(T, o) == T.refs[o]["linkEnds"]

OwnedLiterals(T, o) ==
    SelectSeq(T.kids[o], LAMBDA c : T.tag[c] = "ownedLiterals")

\* C8 (fail-fast writes): PhysicalLink.ends and BooleanType.literals never
\* hold more than two members; an append to either while it holds two is
\* rejected with CardinalityError and leaves the tree, the Identity Map and
\* with them the contents of every relation unchanged; an append while it
\* holds fewer is not rejected.
C8_AtMostTwo ==
    \A o \in Attached :
        /\ IsA(tree.qtype[o], T_PhysicalLink) => Len(LinkEnds(tree, o)) <= 2
        /\ IsA(tree.qtype[o], T_BooleanType) =>
               Len(OwnedLiterals(tree, o)) <= 2

C8_FullAppendFails ==
    op'.name = "append"
        /\ op'.field \in {"PhysicalLink.ends", "BooleanType.literals"} =>
        LET held == IF op'.field = "PhysicalLink.ends"
                    THEN LinkEnds(tree, op'.node)
                    ELSE OwnedLiterals(tree, op'.node) IN
        /\ op'.err = "CardinalityError" <=> Len(held) >= 2
        /\ Len(held) >= 2 =>
               /\ tree' = tree
               /\ idmap' = idmap
               /\ \A o \in Attached, f \in Fields :
                      Holds(o, f) =>
                          Get(tree', o, Decl(f)) = Get(tree, o, Decl(f))

C8_FailFast == []C8_AtMostTwo /\ [][C8_FullAppendFails]_vars

\* A third end was refused by a physical link that has two ends, in a
\* document whose boolean type has its two literals.
C8_Witness ==
    /\ op.name = "append"
    /\ op.field = "PhysicalLink.ends"
    /\ op.err = "CardinalityError"
    /\ Len(Get(tree, op.node, PhysicalLink_ends)) = 2
    /\ \E b \in Attached : Len(Get(tree, b, BooleanType_literals)) = 2

\* C9 (type resolution, I7): a resolution succeeds exactly if a class is
\* registered for the node's (namespace, tag) and the model version is
\* 7.0.0 or later; otherwise it fails with UnknownType, returns no wrapper
\* and creates none.
C9_TypeResolution ==
    op.name = "resolve" =>
        /\ op.err = "ok" <=> /\ tree.qtype[op.node] \in Registered
                             /\ VersionLE(V700, version)
        /\ op.err = "ok" => op.ret \in WrappersOf(idmap, op.node)
        /\ op.err # "ok" => /\ op.err = "UnknownType"
                            /\ op.ret = NoWrapper
                            /\ WrappersOf(idmap, op.node) = {}
                            /\ idmap.entry[op.node] = 0

\* A State of the right namespace failed to resolve in a 6.0.0 model that
\* also holds a node tagged State in the CS namespace.
C9_Witness ==
    /\ op.name = "resolve"
    /\ op.err = "UnknownType"
    /\ version = V600
    /\ tree.qtype[op.node] = T_State
    /\ \E n \in Attached : tree.qtype[n] = <<"CS", "State">>

-----------------------------------------------------------------------------
(* Ports of a component: realizations and allocations between them          *)

PortDocument ==
    LoadFrom(RootOnly("ownedLogicalComponents", T_LogicalComponent,
                      PortNodes),
             << <<Root, Classifier_owned_features.tag, T_ComponentPort>>,
                <<Root, Classifier_owned_features.tag, T_ComponentPort>> >>)

InitPort ==
    /\ tree = PortDocument
    /\ idmap = EmptyMap
    /\ version = V700
    /\ op = NoOp

NextPort ==
    \/ \E p, x \in Nodes : AllocAppend(p, "Port.allocated_ports", x)
    \/ \E p, x \in Nodes : AllocAppend(p, "Port.realized_ports", x)
    \/ \E p, x \in Nodes : AllocRemove(p, "Port.allocated_ports", x)
    \/ \E p, x \in Nodes : AllocRemove(p, "Port.realized_ports", x)
    \/ \E p, l \in Nodes : ContRemove(p, "Port.port_realizations", l)

SpecPort == InitPort /\ [][NextPort]_vars

-----------------------------------------------------------------------------
(* Two architecture layers of one project: the upper realizes the lower     *)

RealizationFields ==
    {"SystemAnalysis.realized_operational_analysis",
     "LogicalArchitecture.realized_system_analysis",
     "PhysicalArchitecture.realized_logical_architectures",
     "EPBSArchitecture.realized_physical_architecture"}

LayersDocument(lower, upper) ==
    LoadFrom(RootOnly("ownedModelRoots", T_SystemEngineering, RealNodes),
             << <<Root, "ownedArchitectures", lower>>,
                <<Root, "ownedArchitectures", upper>> >>)

InitReal ==
    /\ tree \in {LayersDocument(T_OperationalAnalysis, T_SystemAnalysis),
                 LayersDocument(T_SystemAnalysis, T_LogicalArchitecture),
                 LayersDocument(T_LogicalArchitecture, T_PhysicalArchitecture),
                 LayersDocument(T_PhysicalArchitecture, T_EPBSArchitecture)}
    /\ idmap = EmptyMap
    /\ version = V700
    /\ op = NoOp

NextReal ==
    \/ \E f \in RealizationFields : \E o, x \in Nodes : AllocAppend(o, f, x)
    \/ \E f \in RealizationFields : \E o, x \in Nodes : AllocRemove(o, f, x)
    \/ \E n \in Nodes : Resolve(n)

SpecReal == InitReal /\ [][NextReal]_vars

-----------------------------------------------------------------------------
(* Creating components: in the package of each layer and inside others      *)

Names == {"", "c"}

ComponentTypes ==
    {T_LogicalComponent, T_SystemComponent, T_PhysicalComponent, T_Entity,
     T_ConfigurationItem}

ComponentFields ==
    {"LogicalComponentPkg.components", "LogicalComponent.components",
     "SystemComponentPkg.components", "PhysicalComponentPkg.components",
     "EntityPkg.entities", "ConfigurationItemPkg.configuration_items",
     "PhysicalFunction.functions"}

InitComp ==
    /\ tree \in {RootOnly("ownedLogicalComponentPkg", T_LogicalComponentPkg,
                          CompNodes),
                 RootOnly("ownedSystemComponentPkg", T_SystemComponentPkg,
                          CompNodes),
                 RootOnly("ownedPhysicalComponentPkg", T_PhysicalComponentPkg,
                          CompNodes),
                 RootOnly("ownedEntityPkg", T_EntityPkg, CompNodes),
                 RootOnly("ownedConfigurationItemPkg", T_ConfigurationItemPkg,
                          CompNodes),
                 RootOnly(AbstractFunction_functions.tag, T_PhysicalFunction,
                          CompNodes)}
    /\ idmap = EmptyMap
    /\ version = V700
    /\ op = NoOp

NextComp ==
    \E o \in Attached : \E f \in {g \in ComponentFields : Holds(o, g)} :
        \E q \in {r \in ComponentTypes : IsA(r, Decl(f).cls)} :
            \E nm \in Names : \E create_part \in BOOLEAN :
                CreateComponent(o, f, q, nm, create_part)

SpecComp == InitComp /\ [][NextComp]_vars

-----------------------------------------------------------------------------
(* A physical link without ends, and the ends it may be given               *)

InitLink ==
    /\ tree = LoadFrom(RootOnly("ownedPhysicalLinks", T_PhysicalLink,
                                LinkNodes),
                       << <<Root, PhysicalLink_physical_link_ends.tag,
                            T_PhysicalLinkEnd>>,
                          <<Root, PhysicalLink_physical_link_ends.tag,
                            T_PhysicalLinkEnd>> >>)
    /\ idmap = EmptyMap
    /\ version = V700
    /\ op = NoOp

NextLink ==
    \/ \E o \in Nodes : \E end \in Nodes \cup {NoNode} : SetSource(o, end)
    \/ \E o \in Nodes : \E end \in Nodes \cup {NoNode} : SetTarget(o, end)
    \/ \E o \in Nodes :
           ContAppend(o, "PhysicalLink.physical_link_ends", T_PhysicalLinkEnd)

SpecLink == InitLink /\ [][NextLink]_vars

-----------------------------------------------------------------------------
(* Entities with ports, and the exchanges between them                      *)

RelatedDocument ==
    LoadFrom(RootOnly("ownedEntities", T_Entity, MaxNodes),
             << <<Root, EntityPkg_entities.tag, T_Entity>>,
                <<Root, Classifier_owned_features.tag, T_ComponentPort>>,
                <<2, Classifier_owned_features.tag, T_ComponentPort>>,
                <<Root, "ownedComponentExchanges", T_ComponentExchange>> >>)

InitRel ==
    /\ tree = RelatedDocument
    /\ idmap = EmptyMap
    /\ version = V700
    /\ op = NoOp

NextRel ==
    \/ \E o, x \in Nodes : AssocWrite(o, "AbstractInformationFlow.source", x)
    \/ \E o, x \in Nodes : AssocWrite(o, "AbstractInformationFlow.target", x)
    \/ \E o \in Nodes :
           ContAppend(o, "Classifier.owned_features", T_ComponentPort)

SpecRel == InitRel /\ [][NextRel]_vars

-----------------------------------------------------------------------------
(* Two architectures of one layer in one project, the second with actors    *)

TwoArchitectures(arch, pkgtag, pkg) ==
    LoadFrom(RootOnly("ownedModelRoots", T_SystemEngineering, MaxNodes),
             << <<Root, "ownedArchitectures", arch>>,
                <<Root, "ownedArchitectures", arch>>,
                <<3, pkgtag, pkg>> >>)

InitScope ==
    /\ tree \in {TwoArchitectures(T_OperationalAnalysis, "ownedEntityPkg",
                                  T_EntityPkg),
                 TwoArchitectures(T_SystemAnalysis, "ownedSystemComponentPkg",
                                  T_SystemComponentPkg),
                 TwoArchitectures(T_LogicalArchitecture,
                                  "ownedLogicalComponentPkg",
                                  T_LogicalComponentPkg),
                 TwoArchitectures(T_PhysicalArchitecture,
                                  "ownedPhysicalComponentPkg",
                                  T_PhysicalComponentPkg)}
    /\ idmap = EmptyMap
    /\ version = V700
    /\ op = NoOp

NextScope ==
    \/ \E o \in Attached : \E f \in {g \in ComponentFields : Holds(o, g)} :
           \E q \in {r \in ComponentTypes : IsA(r, Decl(f).cls)} :
               \E nm \in Names : \E create_part \in BOOLEAN :
                   CreateComponent(o, f, q, nm, create_part)
    \/ \E o \in Nodes : \E b \in BOOLEAN : SetActor(o, b)

SpecScope == InitScope /\ [][NextScope]_vars

-----------------------------------------------------------------------------
(* Classes and data types of a data package, and what each extends          *)

ClassesDocument ==
    LoadFrom(RootOnly("ownedDataPkg", T_DataPkg, MaxNodes),
             << <<Root, DataPkg_classes.tag, T_Class>>,
                <<Root, DataPkg_classes.tag, T_Class>>,
                <<Root, DataPkg_classes.tag, T_Union>> >>)

DataTypesDocument ==
    LoadFrom(RootOnly("ownedDataPkg", T_DataPkg, MaxNodes),
             << <<Root, DataPkg_data_types.tag, T_Enumeration>>,
                <<Root, DataPkg_data_types.tag, T_BooleanType>>,
                <<Root, DataPkg_data_types.tag, T_Enumeration>> >>)

\* A class extends a class, a data type a data type.
SameFamily(o, x) ==
    \/ IsA(tree.qtype[o], T_Class) /\ IsA(tree.qtype[x], T_Class)
    \/ IsA(tree.qtype[o], T_DataType) /\ IsA(tree.qtype[x], T_DataType)

InitInh ==
    /\ tree \in {ClassesDocument, DataTypesDocument}
    /\ idmap = EmptyMap
    /\ version = V700
    /\ op = NoOp

NextInh ==
    \/ \E o, x \in Attached :
           SameFamily(o, x) /\ AssocWrite(o, "GeneralizableElement.super", x)
    \/ \E o \in Attached :
           IsA(tree.qtype[o], T_Class)
               /\ ContAppend(o, "Classifier.owned_features", T_Property)
    \/ \E o \in Nodes :
           ContAppend(o, "Enumeration.owned_literals", T_EnumerationLiteral)

SpecInh == InitInh /\ [][NextInh]_vars

-----------------------------------------------------------------------------
(* A physical component, the component it owns, and their parts             *)

DeploymentDocument ==
    LET doc == LoadFrom(
                   RootOnly("ownedPhysicalComponents", T_PhysicalComponent,
                            MaxNodes),
                   << <<Root, Classifier_owned_features.tag, T_Part>>,
                      <<Root, PhysicalComponent_owned_components.tag,
                        T_PhysicalComponent>>,
                      <<Root, Classifier_owned_features.tag, T_Part>> >>)
    IN SetRefs(SetRefs(doc, 2, TypedElement_type.attr, <<Root>>),
               4, TypedElement_type.attr, <<3>>)

InitDep ==
    /\ tree = DeploymentDocument
    /\ idmap = EmptyMap
    /\ version = V700
    /\ op = NoOp

NextDep ==
    \/ \E o \in Nodes :
           ContAppend(o, "Part.deployment_links", T_PartDeploymentLink)
    \/ \E o, x \in Nodes :
           AssocWrite(o, "AbstractDeploymentLink.deployed_element", x)
    \/ \E o, x \in Nodes : AssocWrite(o, "TypedElement.type", x)
    \/ \E o \in Nodes : \E create_part \in BOOLEAN :
           CreateComponent(o, "PhysicalComponent.owned_components",
                           T_PhysicalComponent, "", create_part)

SpecDep == InitDep /\ [][NextDep]_vars

-----------------------------------------------------------------------------
(* Physical functions: a loaded function tree and its functions field       *)

PFRoot == RootOnly(AbstractFunction_functions.tag, T_PhysicalFunction, PFNodes)

PFDocuments ==
    {PFRoot,
     LoadFrom(PFRoot,
              << <<Root, AbstractFunction_functions.tag,
                   T_PhysicalFunction>> >>),
     LoadFrom(PFRoot,
              << <<Root, AbstractFunction_functions.tag, T_PhysicalFunction>>,
                 <<2, AbstractFunction_functions.tag,
                   T_PhysicalFunction>> >>),
     LoadFrom(PFRoot,
              << <<Root, AbstractFunction_functions.tag, T_PhysicalFunction>>,
                 <<Root, AbstractFunction_functions.tag,
                   T_PhysicalFunction>> >>)}

InitPF ==
    /\ tree \in PFDocuments
    /\ idmap = EmptyMap
    /\ version = V700
    /\ op = NoOp

NextPF ==
    \/ \E o \in Nodes :
           ContAppend(o, "PhysicalFunction.functions", T_PhysicalComponent)
    \/ \E o, c \in Nodes : ContRemove(o, "PhysicalFunction.functions", c)
    \/ \E n \in Nodes : Resolve(n)

SpecPF == InitPF /\ [][NextPF]_vars

-----------------------------------------------------------------------------
(* Views                                                                    *)

\* The outcome a read of the Single relation rel on o must have.
SingleReadOutcome(o, rel) ==
    LET ms == Get(tree, o, rel) IN
    /\ (op'.err = "AmbiguityError") = (Len(ms) > 1)
    /\ (op'.err = "DanglingReferenceError") = (Len(ms) = 1 /\ ms[1] = Dangling)
    /\ op'.arg = IF Len(ms) = 1 /\ ms[1] # Dangling THEN ms[1] ELSE NoNode

\* C11 (Alias is a view), part 1: in every reachable state an alias reads
\* exactly what its target reads, members and order: ComponentPkg.owned_parts
\* as ComponentPkg.parts, FunctionalExchange.allocating_component_exchange as
\* FunctionalExchange.owner.
C11_SameMembers ==
    \A o \in Attached :
        /\ IsA(tree.qtype[o], T_ComponentPkg) =>
               Get(tree, o, ComponentPkg_owned_parts) =
                   Get(tree, o, ComponentPkg_parts)
        /\ IsA(tree.qtype[o], T_FunctionalExchange) =>
               Get(tree, o, FunctionalExchange_allocating_component_exchange)
                   = Get(tree, o, FunctionalExchange_owner)

\* C11, part 2: an append through the alias shows in the target, an append
\* or a remove through the target shows in the alias, and a read of the
\* Single alias has the outcome a read of its target has.
C11_WriteThrough ==
    /\ \A o \in Nodes :
           (op'.name = "append" /\ op'.node = o /\ op'.err = "ok"
            /\ op'.field = "ComponentPkg.owned_parts")
           => Get(tree', o, ComponentPkg_parts) =
                  Append(Get(tree, o, ComponentPkg_parts), op'.arg)
    /\ \A o \in Nodes :
           (op'.name = "append" /\ op'.node = o /\ op'.err = "ok"
            /\ op'.field = "ComponentPkg.parts")
           => Get(tree', o, ComponentPkg_owned_parts) =
                  Append(Get(tree, o, ComponentPkg_owned_parts), op'.arg)
    /\ \A o \in Nodes :
           (op'.name = "remove" /\ op'.node = o
            /\ op'.field = "ComponentPkg.parts")
           => Get(tree', o, ComponentPkg_owned_parts) =
                  SelectSeq(Get(tree, o, ComponentPkg_owned_parts),
                            LAMBDA c : c # op'.arg)
    /\ (op'.name = "deref"
        /\ op'.field = "FunctionalExchange.allocating_component_exchange")
       => SingleReadOutcome(op'.node, FunctionalExchange_owner)

\* C11: Alias is a view of its target, for reads and for writes.
C11_AliasIsView == []C11_SameMembers /\ [][C11_WriteThrough]_vars

\* A part was appended through the alias of a package that held a part.
C11_Witness ==
    /\ op.name = "append" /\ op.err = "ok"
    /\ op.field = "ComponentPkg.owned_parts"
    /\ Len(Get(tree, op.node, ComponentPkg_parts)) >= 2
    /\ op.arg \in SeqToSet(Get(tree, op.node, ComponentPkg_parts))

\* view is the restriction of base to the members of type cls or a subtype:
\* every such member of base once, nothing else, in base's relative order.
TypedViewOf(view, base, cls) ==
    /\ \A i \in 1..Len(view) :
           /\ view[i] \in SeqToSet(base)
           /\ IsA(tree.qtype[view[i]], cls)
    /\ \A j \in 1..Len(base) :
           IsA(tree.qtype[base[j]], cls) => Count(view, base[j]) = 1
    /\ \A i, j \in 1..Len(view) :
           i < j => IndexOf(base, view[i]) < IndexOf(base, view[j])

\* C12 (Filter is a typed view): in every reachable state Component.ports,
\* physical_ports and owned_parts and Class.owned_properties hold exactly
\* the owned features that are ComponentPorts, PhysicalPorts, Parts and
\* Properties (subtypes included), and DataPkg.unions exactly the classes
\* that are Unions, each in the order of the underlying relation and never
\* a node the underlying relation does not hold.
C12_FilterIsTypedView ==
    \A o \in Attached :
        /\ IsA(tree.qtype[o], T_Component) =>
               LET base == Get(tree, o, Classifier_owned_features) IN
               /\ TypedViewOf(Get(tree, o, Component_ports), base,
                              T_ComponentPort)
               /\ TypedViewOf(Get(tree, o, Component_physical_ports), base,
                              T_PhysicalPort)
               /\ TypedViewOf(Get(tree, o, Component_owned_parts), base,
                              T_Part)
        /\ IsA(tree.qtype[o], T_Class) =>
               TypedViewOf(Get(tree, o, Class_owned_properties),
                           Get(tree, o, Classifier_owned_features),
                           T_Property)
        /\ IsA(tree.qtype[o], T_DataPkg) =>
               TypedViewOf(Get(tree, o, DataPkg_unions),
                           Get(tree, o, DataPkg_classes), T_Union)

\* A component owns features of several types of which its ports view
\* shows some and hides others, and a class shows a subtype of Property
\* next to an operation it hides.
C12_Witness ==
    \/ \E o \in Attached :
           /\ IsA(tree.qtype[o], T_Component)
           /\ Len(Get(tree, o, Component_ports)) >= 2
           /\ Len(Get(tree, o, Component_ports)) <
                  Len(Get(tree, o, Classifier_owned_features))
    \/ \E o \in Attached :
           /\ IsA(tree.qtype[o], T_Class)
           /\ Len(Get(tree, o, Class_owned_properties)) >= 2
           /\ Len(Get(tree, o, Class_owned_properties)) <
                  Len(Get(tree, o, Classifier_owned_features))

-----------------------------------------------------------------------------
(* Architectures                                                            *)

SinglePkgFields ==
    {"BlockArchitecture.data_pkg", "BlockArchitecture.interface_pkg"}

\* C13 (Single write replaces), part 1: in every reachable state the Single
\* relations data_pkg and interface_pkg of an architecture hold at most one
\* member.
C13_NeverTwo ==
    \A o \in Attached : \A f \in SinglePkgFields :
        IsA(tree.qtype[o], Owner(f)) => Len(Get(tree, o, Decl(f))) <= 1

\* C13, part 2: a write to data_pkg or interface_pkg leaves the relation
\* with exactly the written member; a member it held before is no longer
\* part of the document.
C13_WriteReplaces_step ==
    \A o \in Nodes : \A f \in SinglePkgFields :
        (op'.name = "write" /\ op'.node = o /\ op'.field = f)
        => /\ op'.err = "ok"
           /\ Get(tree', o, Decl(f)) = <<op'.arg>>
           /\ op'.arg \notin Used(tree)
           /\ \A m \in SeqToSet(Get(tree, o, Decl(f))) : ~InTree(tree', m)

\* C13: writing a Single relation replaces its member.
C13_SingleWriteReplaces == []C13_NeverTwo /\ [][C13_WriteReplaces_step]_vars

\* A data package was written over one that was there.
C13_Witness ==
    /\ op.name = "write" /\ op.field = "BlockArchitecture.data_pkg"
    /\ op.gone # {}
    /\ Get(tree, op.node, BlockArchitecture_data_pkg) = <<op.arg>>

\* The child indices that lead from the root to n.
RECURSIVE PathOf(_, _)
PathOf(T, n) ==
    IF T.parent[n] = NoNode THEN <<>>
    ELSE Append(PathOf(T, T.parent[n]), IndexOf(T.kids[T.parent[n]], n))

\* a comes before b in a depth-first, parent-first walk of the document.
Precedes(T, a, b) ==
    LET p == PathOf(T, a)
        q == PathOf(T, b)
    IN \E k \in 1..Len(q) :
           /\ \A i \in 1..(k - 1) : i <= Len(p) /\ p[i] = q[i]
           /\ (Len(p) = k - 1 \/ (Len(p) >= k /\ p[k] < q[k]))

\* res lists exactly the nodes at or below scope of type q or a subtype,
\* once each, in document order.
ScopedResult(res, q, scope) ==
    /\ SeqToSet(res) = {n \in Subtree(tree, scope) : IsA(tree.qtype[n], q)}
    /\ \A i, j \in 1..Len(res) : i < j => Precedes(tree, res[i], res[j])

SearchedTypes == {T_Class, T_Union, T_Interface, T_DataPkg}

\* C14 (scoped search): in every reachable state, for every attached scope,
\* search(type, below=scope) is exactly the nodes of the subtree at scope
\* whose type is the type or a subtype, each once, in depth-first document
\* order; all_classes, all_unions and all_interfaces of an architecture are
\* that result for Class, Union and Interface with the architecture as scope.
C14_ScopedSearch ==
    /\ \A scope \in Attached : \A q \in SearchedTypes :
           ScopedResult(Search(tree, q, scope), q, scope)
    /\ \A o \in Attached :
           IsA(tree.qtype[o], T_BlockArchitecture) =>
               /\ ScopedResult(BlockArchitecture_all_classes(tree, o),
                               T_Class, o)
               /\ ScopedResult(BlockArchitecture_all_unions(tree, o),
                               T_Union, o)
               /\ ScopedResult(BlockArchitecture_all_interfaces(tree, o),
                               T_Interface, o)

\* An architecture with classes in two packages at different depths,
\* one of them a union, so that a scope below the architecture sees fewer.
C14_Witness ==
    \E o, d \in Attached :
        /\ IsA(tree.qtype[o], T_BlockArchitecture)
        /\ tree.qtype[d] = T_DataPkg
        /\ Len(BlockArchitecture_all_classes(tree, o)) >= 2
        /\ Len(BlockArchitecture_all_unions(tree, o)) >= 1
        /\ Len(BlockArchitecture_all_unions(tree, o)) <
               Len(BlockArchitecture_all_classes(tree, o))
        /\ Len(Search(tree, T_Class, d)) >= 1
        /\ Len(Search(tree, T_Class, d)) <
               Len(BlockArchitecture_all_classes(tree, o))

-----------------------------------------------------------------------------
(* Exchanges                                                                *)

RECURSIVE TotalLen(_)
TotalLen(ss) == IF ss = <<>> THEN 0 ELSE Len(Head(ss)) + TotalLen(Tail(ss))

\* C15 (no silent deduplication): in every reachable state the
\* exchange_items of a component exchange are its convoyed_informations
\* followed by the exchanged_items of each allocated functional exchange in
\* allocation order; their number is len(convoyed_informations) plus the
\* sum of len(fx.exchanged_items), so an item reachable twice is there
\* twice, and every occurrence resolves to the one live wrapper of its node.
C15_NoDeduplication ==
    \A o \in Attached :
        IsA(tree.qtype[o], T_ComponentExchange) =>
            LET conv  == Get(tree, o,
                             AbstractInformationFlow_convoyed_informations)
                fxs   == Get(tree, o,
                             ComponentExchange_allocated_functional_exchanges)
                items == [k \in 1..Len(fxs) |->
                             Get(tree, fxs[k],
                                 FunctionalExchange_exchanged_items)]
                res   == ComponentExchange_exchange_items(tree, o)
            IN /\ Len(res) = Len(conv) + TotalLen(items)
               /\ SubSeq(res, 1, Len(conv)) = conv
               /\ \A k \in 1..Len(fxs) :
                      LET off == Len(conv) + TotalLen(SubSeq(items, 1, k - 1))
                      IN SubSeq(res, off + 1, off + Len(items[k])) = items[k]
               /\ \A n \in SeqToSet(res) \ {Dangling} :
                      Cardinality(WrappersOf(idmap, n)) <= 1

\* A component exchange convoys an item that it also reaches through an
\* allocated functional exchange: the item is listed more than once and has
\* a wrapper.
C15_Witness ==
    \E o, x \in Attached :
        /\ IsA(tree.qtype[o], T_ComponentExchange)
        /\ x \in SeqToSet(Get(tree, o,
                               AbstractInformationFlow_convoyed_informations))
        /\ x \in SeqToSet(Map(tree,
               Get(tree, o, ComponentExchange_allocated_functional_exchanges),
               "exchanged_items"))
        /\ Count(ComponentExchange_exchange_items(tree, o), x) >= 3
        /\ idmap.entry[x] # 0

-----------------------------------------------------------------------------
(* Compatibility names                                                      *)

\* C16 (deprecated access never blocks), part 1: in every reachable state
\* State.entries reads what State.entry reads and Region.modes reads the
\* members of Region.states that are Modes, in their order.
C16_SameResult ==
    \A o \in Attached :
        /\ IsA(tree.qtype[o], T_State) =>
               Get(tree, o, State_entries) = Get(tree, o, State_entry)
        /\ IsA(tree.qtype[o], T_Region) =>
               Get(tree, o, Region_modes) =
                   SelectSeq(Get(tree, o, Region_states),
                             LAMBDA c : IsA(tree.qtype[c], T_Mode))

\* C16, part 2: a read through a deprecated name warns, succeeds, and
\* leaves the document and the Identity Map as they were.
C16_ReadWarns_step ==
    (op'.name = "read" /\ op'.field \in {"State.entries", "Region.modes"})
    => /\ op'.warn
       /\ op'.err = "ok"
       /\ tree' = tree
       /\ idmap' = idmap
       /\ version' = version

\* C16: deprecated names warn, give the current field's result and change
\* nothing.
C16_DeprecatedAccess == []C16_SameResult /\ [][C16_ReadWarns_step]_vars

\* Region.modes was read on a region that has a mode and a state that is
\* none, while some state has an entry event.
C16_Witness ==
    /\ op.name = "read" /\ op.field = "Region.modes" /\ op.warn
    /\ Len(Get(tree, op.node, Region_modes)) >= 1
    /\ Len(Get(tree, op.node, Region_modes)) <
           Len(Get(tree, op.node, Region_states))
    /\ \E x \in Attached :
           IsA(tree.qtype[x], T_State) /\ Get(tree, x, State_entries) # <<>>

\* C17 (singleton bound on a Single-wrapped Backref), as stated, part 1: in
\* every reachable state every FunctionalExchange.owner holds 0 or 1
\* members.
C17_AtMostOneOwner ==
    \A x \in Attached :
        IsA(tree.qtype[x], T_FunctionalExchange) =>
            Len(Get(tree, x, FunctionalExchange_owner)) <= 1

\* C17, as stated, part 2: an append to allocated_functional_exchanges by a
\* second component exchange of a functional exchange that has an owner
\* fails and leaves the document as it was.
C17_SecondOwnerRejected_step ==
    \A o, x \in Nodes :
        (/\ op'.name = "append" /\ op'.node = o /\ op'.arg = x
         /\ op'.field = "ComponentExchange.allocated_functional_exchanges"
         /\ InTree(tree, x)
         /\ Get(tree, x, FunctionalExchange_owner) # <<>>
         /\ o \notin SeqToSet(Get(tree, x, FunctionalExchange_owner)))
        => (op'.err # "ok" /\ tree' = tree)

\* C17: FunctionalExchange.owner, a Single over the Backref on
\* allocated_functional_exchanges, never holds two members, and the append
\* that would give it a second one fails before mutating.
C17_AsStated ==
    []C17_AtMostOneOwner /\ [][C17_SecondOwnerRejected_step]_vars

-----------------------------------------------------------------------------
(* Interface links                                                          *)

\* Some member of the links has i as the sole member of its own field.
SomeLinkNames(links, field, i) ==
    \E k \in 1..Len(links) : Get(tree, links[k], field) = <<i>>

\* C18 (link-field agreement): in every reachable state, for every component
\* c and interface i, i is in c.implemented_interfaces iff some link of
\* c.interface_implementations has implemented_interface = i, and i is in
\* c.used_interfaces iff some link of c.interface_uses has
\* used_interface = i.
C18_AsStated ==
    \A c, i \in Attached :
        (IsA(tree.qtype[c], T_Component) /\ IsA(tree.qtype[i], T_Interface))
        => /\ (i \in SeqToSet(Get(tree, c, Component_implemented_interfaces)))
              = SomeLinkNames(
                    Get(tree, c, Component_interface_implementations),
                    InterfaceImplementation_implemented_interface, i)
           /\ (i \in SeqToSet(Get(tree, c, Component_used_interfaces)))
              = SomeLinkNames(Get(tree, c, Component_interface_uses),
                              InterfaceUse_used_interface, i)

\* C22 (component creation honours the relation's tag): creating a
\* component of any concrete subtype through a Containment relation
\* succeeds, the new node carries the tag of that relation and is the last
\* member of get(owner).
C22_TagHonoured_step ==
    \A f \in ComponentFields :
        (op'.name = "create" /\ op'.field = f)
        => /\ op'.err = "ok"
           /\ tree'.tag[op'.arg] = Decl(f).tag
           /\ tree'.parent[op'.arg] = op'.node
           /\ Get(tree', op'.node, Decl(f)) # <<>>
           /\ Get(tree', op'.node, Decl(f))
                 [Len(Get(tree', op'.node, Decl(f)))] = op'.arg

C22_AsStated == [][C22_TagHonoured_step]_vars

\* The Part nodes of the tree.
Parts(T) == {n \in Used(T) : InTree(T, n) /\ T.qtype[n] = T_Part}

\* C23 (automatic Part): a successful create with create_part makes exactly
\* one Part, typed by and named as the new component, in the parent's
\* owned_parts when the parent is a Component or a ComponentPkg and in the
\* component's own otherwise, and it is the component's one representing
\* part; without create_part no Part is made.
C23_AutomaticPart_step ==
    (op'.name = "create" /\ op'.err = "ok")
    => LET c == op'.arg
           o == op'.node
           h == IF \/ IsA(tree.qtype[o], T_Component)
                   \/ IsA(tree.qtype[o], T_ComponentPkg)
                THEN o ELSE c
           new == Parts(tree') \ Parts(tree)
       IN IF op'.flag
          THEN /\ Cardinality(new) = 1
               /\ \A p \in new :
                      /\ Get(tree', p, TypedElement_type) = <<c>>
                      /\ tree'.name[p] = tree'.name[c]
                      /\ p \in SeqToSet(Get(tree', h,
                             FieldOf(tree'.qtype[h], "owned_parts")))
                      /\ Get(tree', c, Component_representing_parts) = <<p>>
          ELSE /\ new = {}
               /\ Get(tree', c, Component_representing_parts) = <<>>

C23_AutomaticPart == [][C23_AutomaticPart_step]_vars

\* A named component was created inside another component, and its Part
\* lies among the parts of that other component.
C23_Witness ==
    /\ op.name = "create" /\ op.err = "ok" /\ op.flag
    /\ tree.name[op.arg] = "c"
    /\ IsA(tree.qtype[op.node], T_Component)
    /\ \E p \in Parts(tree) :
           /\ tree.refs[p]["abstractType"] = <<op.arg>>
           /\ tree.parent[p] = op.node
           /\ tree.name[p] = "c"
           /\ Get(tree, op.arg, Component_representing_parts) = <<p>>

\* C24 (PhysicalLink.target setter): a non-None end is refused with
\* TypeError when ends is empty, becomes ends[1] by an append when ends has
\* one member, and replaces ends[1] while ends[0] stays when ends has two;
\* None is refused with TypeError; a refused call leaves ends unchanged.
C24_TargetSetter_step ==
    \A o \in Nodes :
        (op'.name = "set_target" /\ op'.node = o)
        => LET old == Get(tree, o, PhysicalLink_ends)
               new == Get(tree', o, PhysicalLink_ends)
           IN CASE op'.arg = NoNode ->
                       op'.err = "TypeError" /\ new = old
                [] op'.arg # NoNode /\ Len(old) = 0 ->
                       op'.err = "TypeError" /\ new = <<>>
                [] op'.arg # NoNode /\ Len(old) = 1 ->
                       op'.err = "ok" /\ new = <<old[1], op'.arg>>
                [] op'.arg # NoNode /\ Len(old) = 2 ->
                       op'.err = "ok" /\ new = <<old[1], op'.arg>>
                [] OTHER -> FALSE

C24_TargetSetter == [][C24_TargetSetter_step]_vars

\* The target of a link with two ends was set to another end.
C24_Witness ==
    /\ op.name = "set_target" /\ op.err = "ok"
    /\ Len(Get(tree, op.node, PhysicalLink_ends)) = 2
    /\ Get(tree, op.node, PhysicalLink_ends)[2] = op.arg
    /\ Get(tree, op.node, PhysicalLink_ends)[1] # op.arg
    /\ Cardinality(Attached) > 4

\* C25 (PhysicalLink.source setter): a non-None end makes ends = [end] when
\* ends was empty and otherwise replaces ends[0], the length of ends and
\* ends[1] staying as they were; None is refused with TypeError and leaves
\* ends unchanged.
C25_SourceSetter_step ==
    \A o \in Nodes :
        (op'.name = "set_source" /\ op'.node = o)
        => LET old == Get(tree, o, PhysicalLink_ends)
               new == Get(tree', o, PhysicalLink_ends)
           IN IF op'.arg = NoNode
              THEN op'.err = "TypeError" /\ new = old
              ELSE /\ op'.err = "ok"
                   /\ new[1] = op'.arg
                   /\ IF Len(old) = 0 THEN new = <<op'.arg>>
                      ELSE /\ Len(new) = Len(old)
                           /\ \A i \in 2..Len(old) : new[i] = old[i]

C25_SourceSetter == [][C25_SourceSetter_step]_vars

\* The source of a link with two ends was set to another end.
C25_Witness ==
    /\ op.name = "set_source" /\ op.err = "ok"
    /\ Len(Get(tree, op.node, PhysicalLink_ends)) = 2
    /\ Get(tree, op.node, PhysicalLink_ends)[1] = op.arg
    /\ Get(tree, op.node, PhysicalLink_ends)[2] # op.arg

\* C26 (PhysicalLink end invariant): a link that starts without ends never
\* has more than two, never has a target without a source, and its source
\* and target read the most recently successfully set ones (None where
\* never set): each setter call that succeeds changes the one it sets to
\* the given end and leaves the other, each that fails leaves both.
C26_EndsShape ==
    \A o \in Attached :
        IsA(tree.qtype[o], T_PhysicalLink)
        => /\ Len(Get(tree, o, PhysicalLink_ends)) <= 2
           /\ PhysicalLink_target(tree, o) # NoNode
                  => PhysicalLink_source(tree, o) # NoNode

C26_LastSet_step ==
    \A o \in Nodes :
        (op'.name \in {"set_source", "set_target"} /\ op'.node = o)
        => /\ PhysicalLink_source(tree', o)
                 = IF op'.name = "set_source" /\ op'.err = "ok"
                   THEN op'.arg ELSE PhysicalLink_source(tree, o)
           /\ PhysicalLink_target(tree', o)
                 = IF op'.name = "set_target" /\ op'.err = "ok"
                   THEN op'.arg ELSE PhysicalLink_target(tree, o)

C26_EndInvariant ==
    /\ (\A o \in Attached : IsA(tree.qtype[o], T_PhysicalLink)
            => PhysicalLink_source(tree, o) = NoNode
               /\ PhysicalLink_target(tree, o) = NoNode)
    /\ []C26_EndsShape
    /\ [][C26_LastSet_step]_vars

\* After a refused call the link still reads the source and the target it
\* was given before.
C26_Witness ==
    /\ op.name \in {"set_source", "set_target"} /\ op.err = "TypeError"
    /\ PhysicalLink_source(tree, op.node) # NoNode
    /\ PhysicalLink_target(tree, op.node) # NoNode
    /\ PhysicalLink_source(tree, op.node) # PhysicalLink_target(tree, op.node)

\* The stored source and target of an exchange, and of each the node it
\* lies in.
EndsOf(T, cx) == SeqToSet(T.refs[cx]["source"] \o T.refs[cx]["target"])

EndsAndOwners(T, cx) ==
    EndsOf(T, cx) \cup {T.parent[e] : e \in EndsOf(T, cx)}

\* C27 (multi-path backref union): an exchange is among the related
\* exchanges of a component iff its source, the owner of its source, its
\* target or the owner of its target is that component, and among the
\* exchanges of a port iff its source or its target is that port; in both
\* it appears once however many of the paths lead to it.
C27_MultiPathUnion ==
    \A c \in Attached : \A cx \in Attached :
        tree.qtype[cx] = T_ComponentExchange
        => /\ IsA(tree.qtype[c], T_Component)
              => LET xs == Get(tree, c, Component_related_exchanges) IN
                 /\ (cx \in SeqToSet(xs)) = (c \in EndsAndOwners(tree, cx))
                 /\ Count(xs, cx) <= 1
           /\ IsA(tree.qtype[c], T_ComponentPort)
              => LET xs == Get(tree, c, ComponentPort_exchanges) IN
                 /\ (cx \in SeqToSet(xs)) = (c \in EndsOf(tree, cx))
                 /\ Count(xs, cx) <= 1

\* An exchange runs between two ports of one entity, which it reaches by
\* both owner paths, and is that entity's one related exchange.
C27_Witness ==
    \E cx \in Attached : \E p, r \in Attached :
        /\ tree.qtype[cx] = T_ComponentExchange
        /\ tree.refs[cx]["source"] = <<p>>
        /\ tree.refs[cx]["target"] = <<r>>
        /\ p # r
        /\ tree.qtype[p] = T_ComponentPort
        /\ tree.qtype[r] = T_ComponentPort
        /\ tree.parent[p] = tree.parent[r]
        /\ Get(tree, tree.parent[p], Component_related_exchanges) = <<cx>>

\* C28 (architecture-scoped queries): every node an all_* property of an
\* architecture returns, all_actors included, lies in the subtree of that
\* architecture; of two architectures of one layer, neither lists an actor
\* the other owns.
C28_AsStated ==
    \A L \in Attached :
        \A x \in AllResults(tree, L) : x \in SeqToSet(DocOrder(tree, L))

\* The k-th element up the super chain of c (c itself for k = 0), NoNode
\* past its end.
RECURSIVE Ancestor(_, _, _)
Ancestor(T, c, k) ==
    IF k = 0 THEN c
    ELSE LET a == Ancestor(T, c, k - 1) IN
         IF a = NoNode \/ T.refs[a]["super"] = <<>> THEN NoNode
         ELSE T.refs[a]["super"][1]

\* The super chain of c ends: it is finite and has no cycle.
ChainEnds(T, c) == Ancestor(T, c, MaxNodes) = NoNode

\* How many elements of the chain of c, c included, come before the first
\* that is missing or fails the test.
RunLength(T, c, Ok(_)) ==
    Cardinality({k \in 0..MaxNodes :
        \A j \in 0..k : Ancestor(T, c, j) # NoNode /\ Ok(Ancestor(T, c, j))})

\* C29 (inherited members): for a Class whose super chain ends, properties
\* is its owned_properties followed by those of each ancestor, nearest
\* first; for an Enumeration whose chain ends, literals is its
\* owned_literals followed by those of each ancestor up to, and without,
\* the first that is not an Enumeration.
C29_InheritedMembers ==
    \A c \in Attached :
        ChainEnds(tree, c)
        => /\ IsA(tree.qtype[c], T_Class)
              => Class_properties(tree, c)
                 = Flatten([k \in 1..RunLength(tree, c, LAMBDA a : TRUE) |->
                       Get(tree, Ancestor(tree, c, k - 1),
                           Class_owned_properties)])
           /\ IsA(tree.qtype[c], T_Enumeration)
              => Enumeration_literals(tree, c)
                 = Flatten([k \in 1..RunLength(tree, c,
                                LAMBDA a : IsA(tree.qtype[a], T_Enumeration))
                            |-> Get(tree, Ancestor(tree, c, k - 1),
                                    Enumeration_owned_literals)])

\* A class with a property extends a class with a property, which extends
\* a third.
C29_Witness ==
    \E c \in Attached :
        /\ IsA(tree.qtype[c], T_Class)
        /\ ChainEnds(tree, c)
        /\ Ancestor(tree, c, 2) # NoNode
        /\ Len(Class_properties(tree, c)) = 2
        /\ tree.parent[Class_properties(tree, c)[1]] = c
        /\ tree.parent[Class_properties(tree, c)[2]] = Ancestor(tree, c, 1)

\* x comes before y in xs, by their first occurrences.
FirstBefore(xs, x, y) ==
    \E i \in 1..Len(xs) :
        /\ xs[i] = x
        /\ \A j \in 1..i : xs[j] # y

\* C30 (related_components): the deployed components in their order, then
\* the owned components not yet listed, each node once, and no component
\* that is neither deployed nor owned.
C30_RelatedComponents ==
    \A c \in Attached :
        IsA(tree.qtype[c], T_PhysicalComponent)
        => LET dep == PhysicalComponent_deployed_components(tree, c)
               own == Get(tree, c, PhysicalComponent_owned_components)
               rel == PhysicalComponent_related_components(tree, c)
           IN /\ SeqToSet(rel) = SeqToSet(dep) \cup SeqToSet(own)
              /\ \A x \in SeqToSet(rel) : Count(rel, x) = 1
              /\ \A x, y \in SeqToSet(rel) :
                     (x # y /\ FirstBefore(rel, x, y))
                     => \/ x \in SeqToSet(dep) /\ y \notin SeqToSet(dep)
                        \/ /\ x \in SeqToSet(dep) /\ y \in SeqToSet(dep)
                           /\ FirstBefore(dep, x, y)
                        \/ /\ x \notin SeqToSet(dep)
                           /\ y \notin SeqToSet(dep)
                           /\ FirstBefore(own, x, y)

\* A component owns two components and deploys the second of them, which
\* is therefore listed first, and once.
C30_Witness ==
    \E c \in Attached :
        /\ IsA(tree.qtype[c], T_PhysicalComponent)
        /\ Len(PhysicalComponent_deployed_components(tree, c)) >= 1
        /\ Len(Get(tree, c, PhysicalComponent_owned_components)) = 2
        /\ Len(PhysicalComponent_related_components(tree, c)) = 2
        /\ PhysicalComponent_related_components(tree, c)[1]
              = Get(tree, c, PhysicalComponent_owned_components)[2]

\* The nodes a sequence of links references through one attribute.
ReferencedBy(T, links, attr) ==
    Flatten([i \in 1..Len(links) |->
        [j \in 1..Len(T.refs[links[i]][attr]) |->
            Member(T, T.refs[links[i]][attr][j])]])

\* get(owner) of an architecture realization returns the nodes its links
\* reference by targetElement.
C21_GetReadsTarget ==
    \A o \in Attached : \A f \in RealizationFields :
        IsA(tree.qtype[o], Owner(f))
        => Get(tree, o, Decl(f))
           = ReferencedBy(tree, ContainmentGet(tree, o, Decl(f)),
                          "targetElement")

\* After append(owner, target) the created link's sourceElement references
\* the owner and its targetElement references the target.
C21_LinkDirection_step ==
    \A f \in RealizationFields :
        (op'.name = "append" /\ op'.field = f /\ op'.err = "ok")
        => /\ tree'.refs[tree.next]["sourceElement"] = <<op'.node>>
           /\ tree'.refs[tree.next]["targetElement"] = <<op'.arg>>

\* C21 (uniform direction of architecture realizations): for each of the
\* four realization relations between architecture layers, an appended
\* link has the realizing architecture as sourceElement and the realized
\* one as targetElement, and get(owner) reads targetElement.
C21_AsStated == []C21_GetReadsTarget /\ [][C21_LinkDirection_step]_vars

\* The link nodes an Allocation of p reads its members from.
LinksOf(T, p, rel) == ContainmentGet(T, p, rel)

\* C20 (paired Containment/Allocation): for every Port p the link nodes
\* behind p.allocated_ports are the members of p.port_allocations and those
\* behind p.realized_ports are the members of p.port_realizations.
C20_SharedLinks ==
    \A p \in Attached :
        IsA(tree.qtype[p], T_Port)
        => /\ LinksOf(tree, p, Port_allocated_ports)
              = Get(tree, p, Port_port_allocations)
           /\ LinksOf(tree, p, Port_realized_ports)
              = Get(tree, p, Port_port_realizations)

\* An append to p.allocated_ports adds one PortAllocation to
\* p.port_allocations and leaves p.realized_ports and p.port_realizations
\* as they were.
C20_AppendAllocates_step ==
    \A p \in Nodes :
        (op'.name = "append" /\ op'.node = p /\ op'.err = "ok"
                            /\ op'.field = "Port.allocated_ports")
        => /\ Len(Get(tree', p, Port_port_allocations))
              = Len(Get(tree, p, Port_port_allocations)) + 1
           /\ \A l \in SeqToSet(Get(tree', p, Port_port_allocations)) :
                  tree'.qtype[l] = T_PortAllocation
           /\ Get(tree', p, Port_realized_ports)
              = Get(tree, p, Port_realized_ports)
           /\ Get(tree', p, Port_port_realizations)
              = Get(tree, p, Port_port_realizations)

\* C20: paired Containment/Allocation share their link nodes, so an append
\* to allocated_ports shows in port_allocations only.
C20_AsStated == []C20_SharedLinks /\ [][C20_AppendAllocates_step]_vars

\* The PhysicalFunction nodes that are direct children of f, in child order.
SubFunctions(T, f) ==
    SelectSeq(T.kids[f], LAMBDA c : IsA(T.qtype[c], T_PhysicalFunction))

\* C19 (PhysicalFunction.functions): for every PhysicalFunction f,
\* f.functions is exactly the sequence of PhysicalFunction nodes that are
\* direct children of f, an append through f.functions creates a
\* PhysicalFunction child, and f.is_leaf is true iff f owns no sub-function.
C19_AsStated ==
    /\ \A f \in Attached :
           IsA(tree.qtype[f], T_PhysicalFunction)
           => /\ Get(tree, f, FieldOf(tree.qtype[f], "functions"))
                 = SubFunctions(tree, f)
              /\ AbstractFunction_is_leaf(tree, f)
                 = (SubFunctions(tree, f) = <<>>)
    /\ (op.name = "append" /\ op.field = "PhysicalFunction.functions"
                           /\ op.err = "ok")
       => IsA(tree.qtype[op.arg], T_PhysicalFunction)


=============================================================================
